---- MODULE Spec2Model ----
(***************************************************************************)
(* Tool-protocol client runtime of ollama-mcp-rag.                         *)
(*                                                                         *)
(*  - McpService (tool list cache, single in-flight tool load)             *)
(*  - McpConnectionPool (singleton pool used by the chat handler)          *)
(*  - MCPService.searchArxiv (spawn-per-call stdio client with fallback)   *)
(*                                                                         *)
(* Time is the value of Date.now() in milliseconds.  Promise continuations *)
(* (microtasks) run before timers and I/O callbacks, so a resolved tool    *)
(* load is settled before the clock moves.                                 *)
(***************************************************************************)
EXTENDS Integers, Sequences, FiniteSets, TLC

\* ---------------------------------------------------------------- bounds
MaxCleanups == 2    \* McpConnectionPool.cleanup() calls
MaxHandlers == 2    \* chat requests waiting for the pool at the same time
MaxCallers == 2     \* direct McpService calls in flight at the same time
MaxLoads == 2       \* initializeTools runs of one McpService
TimeUnit == 150000  \* clock step of the pool / service scenarios (ms)
StartTime == 60000  \* Date.now() when the server process starts (long after the epoch)
MaxNow == 510000    \* clock horizon of the pool / service scenarios (ms)

\* ------------------------------------------------------ program constants
cacheDuration == 5 * 60 * 1000
healthCheckInterval == 30000

\* A _doInitialize run after the first needs a cleanup() to clear initPromise.
Runs == 1..(MaxCleanups + 1)
Cleanups == 1..MaxCleanups
Services == Runs     \* run r constructs McpService r
TheSvc == 1          \* the McpService of the "service" scenario

VARIABLES
  scenario,               \* "pool" | "service" | "arxiv": which object is under use
  now,                    \* Date.now()
  \* --- McpService objects
  svcExists,              \* [Services -> BOOLEAN]  constructed
  mcpClient,              \* [Services -> {"null","new","open","closed"}]
  toolsCache,             \* [Services -> [set, tools, timestamp]]
  svcIsInitialized,       \* [Services -> BOOLEAN]
  initializationPromise,  \* [Services -> {"null","pending"}]
  loadPc,                 \* [Services -> position of the initializeTools run]
  loadValue,              \* [Services -> value the run returns]
  loads,                  \* [Services -> Nat]  initializeTools runs started (history)
  lastLoadDone,           \* [Services -> Int]  time the last run settled, -1 if none (history)
  lastLoadOk,             \* [Services -> BOOLEAN] the last run settled returned getTools()'s list (history)
  clearedSince,           \* [Services -> BOOLEAN] clearCache() since the last settle (history)
  \* --- direct users of the McpService of the "service" scenario
  ltWaiting,              \* listTools() calls awaiting the in-flight load
  ltClosing,              \* close() calls awaiting the client's close()
  lastHanded,             \* what listTools() returned last (history)
  refreshPc,              \* "idle", or how the refreshTools() calls in progress wait:
                          \* "own" (the load they started) or "joined" (one of them
                          \* awaits a load that was in flight when it was called)
  refreshGot,             \* "none", or the refreshPc of the last refreshTools() that
                          \* returned (history)
  \* --- McpConnectionPool
  poolService, poolTools, poolToolsMap, poolIsInitialized, initPromise,
  lastHealthCheck, runPc, runOld,
  cleanupPc, cleanupSvc,  \* [Cleanups -> ...] position of each cleanup() call, and the
                          \* McpService whose close() it awaits
  cleanups,               \* cleanup() calls made so far
  closeCalled,            \* [Services -> BOOLEAN] close() has been called on it (history)
  \* --- chat handlers
  hWaiting,               \* [Runs -> Nat] handlers awaiting the initPromise of a run
  lastGot, lastMap,       \* what getTools() / getToolsMap() returned last (history)
  \* --- MCPService (searchArxiv), scenario "arxiv"
  isServerAvailable,      \* set by the constructor's checkServerAvailability()
  aPc,                    \* position of the searchArxiv call
  aElapsed,               \* Date.now() - startTime of the wait in progress
  aNextCheck,             \* aElapsed at which the pending setTimeout check runs
  childAlive,             \* the spawned process has not exited
  errorLogs,              \* kinds of stderr text received
  responses,              \* stdout chunks received, in order
  aSettled,               \* "pending" | "resolved" | "rejected": the returned promise
  aResult,                \* the object searchArxiv resolved to
  aSpawned,               \* processes spawned by the call (history)
  aSigterm,               \* cleanupProcess sent SIGTERM (history)
  aThrown,                \* message of the error the try block threw, "" if none (history)
  aFallbackCalled,        \* fallbackArxivSearch was called (history)
  aFallbackOutcome,       \* how the fallback fetch ended (history)
  aCallSent,              \* the tools/call request was written (history)
  aExitWhileWaiting,      \* the process exited during a response wait (history)
  aPolledSinceExit,       \* a response check ran after that exit and re-armed (history)
  aWritten,               \* ids of the requests passed to stdin.write, in order (history)
  \* --- MCPService with concurrent calls, scenario "calls"
  cPc,                    \* [Calls -> ...] position of each searchArxiv call
  cProc,                  \* [Calls -> 0..MaxProcs] its serverProcess local, 0 for null
  cResponses,             \* [Calls -> Seq] its responses array
  cThrown,                \* [Calls -> message] what its try block threw (history)
  cResult,                \* [Calls -> result] what it resolved to
  spawnedProcs,           \* processes created so far
  pState,                 \* [Procs -> "none" | "running" | "exited" | "failed"]
  pReady,                 \* [Procs -> BOOLEAN] its ready line is in errorLogs
  pKilled,                \* [Procs -> BOOLEAN] the ChildProcess's killed flag
  pTerm,                  \* [Procs -> Nat] SIGTERMs delivered to it (history)
  pSigkill,               \* [Procs -> BOOLEAN] a SIGKILL was delivered to it (history)
  pGrace,                 \* [Procs -> Nat] armed 2 s timers of cleanupProcess
  pGraceRanAlive,         \* [Procs -> BOOLEAN] such a timer ran while it was running (history)
  pCleanups,              \* [Procs -> Nat] cleanupProcess calls on it (history)
  activeProcesses,        \* the activeProcesses set
  closesWaiting,          \* close() calls waiting for their 1 s timer
  \* --- the child's output as text, scenario "stream"
  pErrText,               \* [Procs -> BOOLEAN] its stderr carried the text of a response
  \* --- the results searchArxiv builds (scenario "results")
  rPath,                  \* "none", or the return statement that built rResult
  rDocument,              \* the inner document it was parsed from (protocol path)
  rFeed,                  \* the papers parseArxivXML returned (fallback path)
  rThrown,                \* the message of the error caught (catch blocks)
  rMaxResults,            \* the maxResults argument of the call
  rResult,                \* the ArxivSearchResult object returned
  \* --- fixNvidiaMessageFormat (scenario "nvidia")
  nvInput,                \* the argument: its form and the messages it holds
  nvVariant,              \* "none", or the file whose function built nvOutput
  nvOutput,               \* the list returned
  \* --- the arxiv_query tool and the /api/research/arxiv endpoint (scenario "tool")
  tArgs,                  \* the arguments object of the call
  tVariant,               \* "none", "execute" (research server) or "search" (endpoint)
  tReply,                 \* what the arXiv API answered
  tResult,                \* the object returned, or [thrown |-> TRUE]
  \* --- handleResearchQuery around one searchArxiv call (scenario "research")
  hBase,                  \* ms from the handler's start to the start of the wait in progress
  hResponse,              \* "none", or the response the handler returns
  \* --- the chat handler's tool calls (scenario "toolcalls")
  tcCalls,                \* response.tool_calls
  tcPromises,             \* toolPromises: the state and value of each
  tcResults,              \* toolResults once Promise.all resolved
  tcDone,                 \* Promise.all has resolved
  \* --- the research agent and debug-mcp handlers (scenario "agent")
  gKind,                  \* [Requests -> "agent" | "debug"] the endpoint of each request
  gPc,                    \* [Requests -> position of the handler]
  gCreated,               \* [Requests -> Nat] McpService objects it constructed (history)
  gCloseCalls,            \* [Requests -> Nat] close() calls on them (history)
  gThrown,                \* [Requests -> BOOLEAN] the try block threw
  \* --- ResearchMcpService.selectToolsForQuery (scenario "select")
  sQuery,                 \* the keywords the query string includes
  sConfigTools,           \* config.tools
  sCalled,                \* the function has returned
  sTools                  \* the list it returned

svcVars == <<svcExists, mcpClient, toolsCache, svcIsInitialized, initializationPromise,
             loadPc, loadValue, loads, lastLoadDone, lastLoadOk, clearedSince>>
callerVars == <<ltWaiting, ltClosing, lastHanded, refreshPc, refreshGot>>
poolVars == <<poolService, poolTools, poolToolsMap, poolIsInitialized, initPromise,
              lastHealthCheck, runPc, runOld, cleanupPc, cleanupSvc, cleanups>>
handlerVars == <<hWaiting, lastGot, lastMap>>
arxivVars == <<isServerAvailable, aPc, aElapsed, aNextCheck, childAlive, errorLogs,
               responses, aSettled, aResult, aSpawned, aSigterm, aThrown,
               aFallbackCalled, aFallbackOutcome, aCallSent, aExitWhileWaiting,
               aPolledSinceExit, aWritten>>
callsVars == <<cPc, cProc, cResponses, cThrown, cResult, spawnedProcs, pState, pReady,
               pKilled, pTerm, pSigkill, pGrace, pGraceRanAlive, pCleanups,
               activeProcesses, closesWaiting>>
streamVars == <<pErrText>>
nvidiaVars == <<nvInput, nvVariant, nvOutput>>
toolVars == <<tArgs, tVariant, tReply, tResult>>
researchVars == <<hBase, hResponse>>
toolCallVars == <<tcCalls, tcPromises, tcResults, tcDone>>
agentVars == <<gKind, gPc, gCreated, gCloseCalls, gThrown>>
selectVars == <<sQuery, sConfigTools, sCalled, sTools>>
endpointVars == <<toolCallVars, agentVars, selectVars>>
resultVars == <<rPath, rDocument, rFeed, rThrown, rMaxResults, rResult>>
vars == <<scenario, now, svcVars, callerVars, poolVars, closeCalled, handlerVars, arxivVars,
          callsVars, streamVars, resultVars, nvidiaVars, toolVars, researchVars, endpointVars, endpointVars>>

\* ------------------------------------------------------------- values
\* A tool list: nonEmpty = it has tools (tools.length > 0); loadedAt is the time
\* getTools() delivered it, -1 for the literal [] (the initial value, or the result
\* of a failed load).
EmptyList == [nonEmpty |-> FALSE, loadedAt |-> -1]
ToolList(some, t) == [nonEmpty |-> some, loadedAt |-> t]
NoCache == [set |-> FALSE, tools |-> EmptyList, timestamp |-> 0]
NoResult == [ok |-> FALSE, tools |-> EmptyList, at |-> -1]
Handed(t) == [ok |-> TRUE, tools |-> t, at |-> now]
Thrown == [ok |-> FALSE, tools |-> EmptyList, at |-> now]

\* ------------------------------------------------------------ McpService
\* Mutant of isCacheValid: the entry never expires.
isCacheValidNoExpiry(cache) == cache.set

\* isCacheValid(), with the toolsCache null test of listTools
isCacheValid(cache) ==
  /\ cache.set
  /\ now - cache.timestamp < cacheDuration

\* listTools(): "if (this.initializationPromise) return await this.initializationPromise"
InitializationInProgress(s) == initializationPromise[s] = "pending"

Resolved(client) == [pc |-> "resolved", value |-> EmptyList, client |-> client]

\* MultiServerMCPClient.fromConfigFile(path): ok or throws; the catch returns []
CreateClient(client, ok) ==
  IF ok THEN [pc |-> "connecting", value |-> EmptyList, client |-> "new"]
        ELSE Resolved(client)

\* initializeTools() up to its first await (or its return): cfg = the config file
\* exists, ok = fromConfigFile succeeds
InitializeToolsBegin(client, cfg, ok) ==
  IF ~cfg THEN Resolved(client)
  ELSE IF client # "null" THEN [pc |-> "closing", value |-> EmptyList, client |-> client]
  ELSE CreateClient(client, ok)

\* A microtask is queued: a settled tool load whose awaiters have not run yet.
MicrotaskPending == \E s \in Services : loadPc[s] = "resolved"

\* listTools(): "this.initializationPromise = this.initializeTools()", the run going
\* as far as its first await; mc is the value of every service's mcpClient field
StartLoadFrom(s, mc) ==
  /\ loads[s] < MaxLoads
  /\ initializationPromise' = [initializationPromise EXCEPT ![s] = "pending"]
  /\ loads' = [loads EXCEPT ![s] = @ + 1]
  /\ \E cfg \in BOOLEAN, ok \in BOOLEAN :
       LET b == InitializeToolsBegin(mc[s], cfg, ok) IN
         /\ loadPc' = [loadPc EXCEPT ![s] = b.pc]
         /\ loadValue' = [loadValue EXCEPT ![s] = b.value]
         /\ mcpClient' = [mc EXCEPT ![s] = b.client]

StartLoad(s) == StartLoadFrom(s, mcpClient)

\* initializeTools(): "await this.mcpClient.close()" returns or throws, then fromConfigFile
LoadCloseDone(s) ==
  /\ loadPc[s] = "closing"
  /\ ~MicrotaskPending
  /\ \E closed \in BOOLEAN, ok \in BOOLEAN :
       LET b == IF closed THEN CreateClient("closed", ok) ELSE Resolved(mcpClient[s]) IN
         /\ loadPc' = [loadPc EXCEPT ![s] = b.pc]
         /\ loadValue' = [loadValue EXCEPT ![s] = b.value]
         /\ mcpClient' = [mcpClient EXCEPT ![s] = b.client]
  /\ UNCHANGED <<arxivVars, callsVars, streamVars, resultVars, nvidiaVars, toolVars, researchVars, endpointVars, closeCalled, scenario, now, svcExists, toolsCache, svcIsInitialized,
                 initializationPromise, loads, lastLoadDone, lastLoadOk, clearedSince,
                 callerVars, poolVars, handlerVars>>

\* initializeTools(): "await this.mcpClient.initializeConnections()" returns or
\* throws; "this.mcpClient.getTools()" throws when close() nulled the field meanwhile.
\* The handshake may also never complete: then this action never happens.
LoadConnectDone(s) ==
  /\ loadPc[s] = "connecting"
  /\ ~MicrotaskPending
  /\ \E ok \in BOOLEAN :
       LET b == IF ok /\ mcpClient[s] # "null"
                THEN [pc |-> "gettingTools", value |-> EmptyList, client |-> "open"]
                ELSE Resolved(mcpClient[s]) IN
         /\ loadPc' = [loadPc EXCEPT ![s] = b.pc]
         /\ loadValue' = [loadValue EXCEPT ![s] = b.value]
         /\ mcpClient' = [mcpClient EXCEPT ![s] = b.client]
  /\ UNCHANGED <<arxivVars, callsVars, streamVars, resultVars, nvidiaVars, toolVars, researchVars, endpointVars, closeCalled, scenario, now, svcExists, toolsCache, svcIsInitialized,
                 initializationPromise, loads, lastLoadDone, lastLoadOk, clearedSince,
                 callerVars, poolVars, handlerVars>>

\* initializeTools(): "await this.mcpClient.getTools()" returns the tools or throws
LoadGetToolsDone(s) ==
  /\ loadPc[s] = "gettingTools"
  /\ ~MicrotaskPending
  /\ \E ok \in BOOLEAN, some \in BOOLEAN :
       /\ loadPc' = [loadPc EXCEPT ![s] = "resolved"]
       /\ loadValue' = [loadValue EXCEPT
             ![s] = IF ok THEN ToolList(some, now) ELSE EmptyList]
       /\ svcIsInitialized' = [svcIsInitialized EXCEPT ![s] = IF ok THEN TRUE ELSE @]
  /\ UNCHANGED <<arxivVars, callsVars, streamVars, resultVars, nvidiaVars, toolVars, researchVars, endpointVars, closeCalled, scenario, now, svcExists, mcpClient, toolsCache,
                 initializationPromise, loads, lastLoadDone, lastLoadOk, clearedSince,
                 callerVars, poolVars, handlerVars>>

\* McpService.close(), after "await this.mcpClient.close()": the finally block
CloseEffect(mc, s) == [mc EXCEPT ![s] = "null"]

\* -------------------------------------------------------- McpConnectionPool
\* isHealthy(): its value and the lastHealthCheck it leaves, from lastHealthCheck = lhc
isHealthyValue(lhc) ==
  IF now - lhc > healthCheckInterval
  THEN poolIsInitialized /\ poolService # 0 /\ poolTools.nonEmpty
  ELSE poolIsInitialized /\ poolService # 0

isHealthyStamp(lhc) == IF now - lhc > healthCheckInterval THEN now ELSE lhc

\* getTools() / getToolsMap(): throw unless isInitialized
getTools(init, tools) == IF init THEN Handed(tools) ELSE Thrown

\* Mutant of InitInFlight: initialize() does not look at initPromise.
InitInFlightIgnored == FALSE

\* initialize(): "if (this.initPromise) return this.initPromise"
InitInFlight == initPromise # 0

RunsStarted == Cardinality({r \in Runs : runPc[r] # "none"})

\* _doInitialize(), from "this.mcpService = new McpService()" to the await of
\* listTools(): run r constructs service r; mc is every service's mcpClient field
ConstructAndList(r, mc) ==
  /\ svcExists' = [svcExists EXCEPT ![r] = TRUE]
  /\ poolService' = r
  /\ StartLoadFrom(r, mc)
  /\ runPc' = [runPc EXCEPT ![r] = "listing"]

\* _doInitialize() up to its first await
DoInitializeBegin(r) ==
  IF poolService # 0 /\ mcpClient[poolService] # "null"
  THEN /\ runPc' = [runPc EXCEPT ![r] = "closingOld"]
       /\ runOld' = [runOld EXCEPT ![r] = poolService]
       /\ closeCalled' = [closeCalled EXCEPT ![poolService] = TRUE]
       /\ UNCHANGED <<svcExists, mcpClient, initializationPromise, loadPc, loadValue,
                      loads, poolService>>
  ELSE /\ ConstructAndList(r, mcpClient)
       /\ UNCHANGED <<runOld, closeCalled>>

\* _doInitialize(): "await this.mcpService.close().catch(() => {})" returns.
\* No run ever waits here (NoRunClosesOld below), so Next does not list it.
RunCloseOldDone(r) ==
  /\ scenario = "pool"
  /\ runPc[r] = "closingOld"
  /\ ~MicrotaskPending
  /\ ConstructAndList(r, CloseEffect(mcpClient, runOld[r]))
  /\ svcIsInitialized' = [svcIsInitialized EXCEPT ![runOld[r]] = FALSE]
  /\ UNCHANGED <<arxivVars, callsVars, streamVars, resultVars, nvidiaVars, toolVars, researchVars, endpointVars, closeCalled, scenario, now, toolsCache, lastLoadDone, lastLoadOk, clearedSince, callerVars,
                 poolTools, poolToolsMap, poolIsInitialized, initPromise,
                 lastHealthCheck, runOld, cleanupPc, cleanupSvc, cleanups, handlerVars>>

HandlersWaiting == LET Sum[r \in 0..(MaxCleanups + 1)] ==
                         IF r = 0 THEN 0 ELSE hWaiting[r] + Sum[r - 1]
                   IN Sum[MaxCleanups + 1]

\* The chat handler's pool use: "if (!mcpPool.isHealthy()) await mcpPool.initialize()",
\* then getTools() and getToolsMap(); a throw is caught and the chat goes on without tools.
ChatRequest ==
  /\ scenario = "pool"
  /\ ~MicrotaskPending
  /\ LET h1 == isHealthyValue(lastHealthCheck)
         l1 == isHealthyStamp(lastHealthCheck)
         \* initialize(): "if (this.isInitialized && this.isHealthy()) return"
         ready == poolIsInitialized /\ isHealthyValue(l1)
         l2 == IF poolIsInitialized THEN isHealthyStamp(l1) ELSE l1
         r == RunsStarted + 1
     IN
       IF h1 \/ ready \/ (InitInFlight /\ runPc[initPromise] = "done")
       THEN \* no wait: the pool is healthy, or initialize() returns a settled promise
            /\ lastHealthCheck' = IF h1 THEN l1 ELSE l2
            /\ lastGot' = getTools(poolIsInitialized, poolTools)
            /\ lastMap' = getTools(poolIsInitialized, poolToolsMap)
            /\ UNCHANGED <<hWaiting, svcVars, poolService, poolTools, poolToolsMap,
                           poolIsInitialized, initPromise, runPc, runOld, closeCalled>>
       ELSE IF InitInFlight
       THEN \* initialize() returns the pending initPromise
            /\ HandlersWaiting < MaxHandlers
            /\ lastHealthCheck' = l2
            /\ hWaiting' = [hWaiting EXCEPT ![initPromise] = @ + 1]
            /\ UNCHANGED <<lastGot, lastMap, svcVars, poolService, poolTools,
                           poolToolsMap, poolIsInitialized, initPromise, runPc, runOld,
                           closeCalled>>
       ELSE \* "this.initPromise = this._doInitialize(); await this.initPromise"
            /\ HandlersWaiting < MaxHandlers
            /\ r \in Runs
            /\ lastHealthCheck' = l2
            /\ initPromise' = r
            /\ DoInitializeBegin(r)
            /\ hWaiting' = [hWaiting EXCEPT ![r] = @ + 1]
            /\ UNCHANGED <<lastGot, lastMap, toolsCache, svcIsInitialized, lastLoadDone, lastLoadOk,
                           clearedSince, poolTools, poolToolsMap, poolIsInitialized>>
  /\ UNCHANGED <<arxivVars, callsVars, streamVars, resultVars, nvidiaVars, toolVars, researchVars, endpointVars, scenario, now, callerVars, cleanupPc, cleanupSvc, cleanups>>

\* cleanup(): the assignments after "await this.mcpService.close()"
CleanupEffect ==
  /\ poolService' = 0
  /\ poolIsInitialized' = FALSE
  /\ initPromise' = 0
  /\ poolTools' = EmptyList
  /\ poolToolsMap' = EmptyList

\* cleanup() up to its await (all of it when there is nothing to close)
CleanupBegin ==
  /\ scenario = "pool"
  /\ cleanups < MaxCleanups
  /\ ~MicrotaskPending
  /\ cleanups' = cleanups + 1
  /\ closeCalled' = IF poolService # 0
                    THEN [closeCalled EXCEPT ![poolService] = TRUE]
                    ELSE closeCalled
  /\ IF poolService # 0 /\ mcpClient[poolService] # "null"
     THEN /\ cleanupPc' = [cleanupPc EXCEPT ![cleanups + 1] = "closing"]
          /\ cleanupSvc' = [cleanupSvc EXCEPT ![cleanups + 1] = poolService]
          /\ UNCHANGED <<poolService, poolIsInitialized, initPromise, poolTools,
                         poolToolsMap>>
     ELSE /\ CleanupEffect
          /\ UNCHANGED <<cleanupPc, cleanupSvc>>
  /\ UNCHANGED <<arxivVars, callsVars, streamVars, resultVars, nvidiaVars, toolVars, researchVars, endpointVars, scenario, now, svcVars, callerVars, lastHealthCheck, runPc, runOld,
                 handlerVars>>

\* cleanup(): "await this.mcpService.close().catch(console.error)" returns
CleanupEnd(k) ==
  /\ scenario = "pool"
  /\ cleanupPc[k] = "closing"
  /\ ~MicrotaskPending
  /\ cleanupPc' = [cleanupPc EXCEPT ![k] = "none"]
  /\ cleanupSvc' = [cleanupSvc EXCEPT ![k] = 0]
  /\ mcpClient' = CloseEffect(mcpClient, cleanupSvc[k])
  /\ svcIsInitialized' = [svcIsInitialized EXCEPT ![cleanupSvc[k]] = FALSE]
  /\ CleanupEffect
  /\ UNCHANGED <<arxivVars, callsVars, streamVars, resultVars, nvidiaVars, toolVars, researchVars, endpointVars, closeCalled, scenario, now, svcExists, toolsCache, initializationPromise, loadPc,
                 loadValue, loads, lastLoadDone, lastLoadOk, clearedSince, callerVars,
                 lastHealthCheck, runPc, runOld, cleanups, handlerVars>>

\* ------------------------------------------------ settling a tool load
\* The promise of initializeTools() is settled and the microtasks awaiting it run:
\* listTools() stores the cache entry and clears initializationPromise; every joined
\* listTools() call returns the same list; a _doInitialize run awaiting listTools()
\* stores the pool's tools and resolves initPromise; the chat handlers awaiting that
\* promise go on to getTools() / getToolsMap().
LoadSettle(s) ==
  /\ loadPc[s] = "resolved"
  /\ toolsCache' = [toolsCache EXCEPT
        ![s] = [set |-> TRUE, tools |-> loadValue[s], timestamp |-> now]]
  /\ initializationPromise' = [initializationPromise EXCEPT ![s] = "null"]
  /\ loadPc' = [loadPc EXCEPT ![s] = "none"]
  /\ loadValue' = [loadValue EXCEPT ![s] = EmptyList]
  /\ lastLoadDone' = [lastLoadDone EXCEPT ![s] = now]
  /\ lastLoadOk' = [lastLoadOk EXCEPT ![s] = loadValue[s] # EmptyList]
  /\ clearedSince' = [clearedSince EXCEPT ![s] = FALSE]
  /\ ltWaiting' = 0
  /\ lastHanded' = IF ltWaiting > 0 THEN Handed(loadValue[s]) ELSE lastHanded
  /\ refreshPc' = "idle"
  /\ refreshGot' = IF refreshPc # "idle" THEN refreshPc ELSE refreshGot
  /\ IF runPc[s] = "listing"
     THEN /\ poolTools' = loadValue[s]
          /\ poolToolsMap' = loadValue[s]
          /\ poolIsInitialized' = TRUE
          /\ lastHealthCheck' = now
          /\ runPc' = [runPc EXCEPT ![s] = "done"]
          /\ hWaiting' = [hWaiting EXCEPT ![s] = 0]
          /\ lastGot' = IF hWaiting[s] > 0 THEN getTools(TRUE, loadValue[s]) ELSE lastGot
          /\ lastMap' = IF hWaiting[s] > 0 THEN getTools(TRUE, loadValue[s]) ELSE lastMap
     ELSE UNCHANGED <<poolTools, poolToolsMap, poolIsInitialized, lastHealthCheck,
                      runPc, hWaiting, lastGot, lastMap>>
  /\ UNCHANGED <<arxivVars, callsVars, streamVars, resultVars, nvidiaVars, toolVars, researchVars, endpointVars, closeCalled, scenario, now, svcExists, mcpClient, svcIsInitialized, loads,
                 ltClosing, poolService, initPromise, runOld, cleanupPc, cleanupSvc,
                 cleanups>>

\* ------------------------------------------- direct use of one McpService
CallsInFlight == ltWaiting + ltClosing

\* listTools() on service s, with `cache` the cache entry in effect
ListToolsOn(s, cache) ==
  IF isCacheValid(cache)
  THEN /\ lastHanded' = Handed(cache.tools)
       /\ UNCHANGED <<ltWaiting, mcpClient, initializationPromise, loadPc, loadValue,
                      loads>>
  ELSE /\ CallsInFlight < MaxCallers
       /\ ltWaiting' = ltWaiting + 1
       /\ UNCHANGED lastHanded
       /\ IF InitializationInProgress(s)
          THEN UNCHANGED <<mcpClient, initializationPromise, loadPc, loadValue, loads>>
          ELSE StartLoad(s)

SvcListTools ==
  /\ scenario = "service"
  /\ ListToolsOn(TheSvc, toolsCache[TheSvc])
  /\ UNCHANGED <<arxivVars, callsVars, streamVars, resultVars, nvidiaVars, toolVars, researchVars, endpointVars, closeCalled, scenario, now, svcExists, toolsCache, svcIsInitialized, lastLoadDone, lastLoadOk,
                 clearedSince, ltClosing, refreshPc, refreshGot, poolVars, handlerVars>>

\* clearCache()
SvcClearCache ==
  /\ scenario = "service"
  /\ toolsCache[TheSvc].set
  /\ toolsCache' = [toolsCache EXCEPT ![TheSvc] = NoCache]
  /\ clearedSince' = [clearedSince EXCEPT ![TheSvc] = TRUE]
  /\ UNCHANGED <<arxivVars, callsVars, streamVars, resultVars, nvidiaVars, toolVars, researchVars, endpointVars, closeCalled, scenario, now, svcExists, mcpClient, svcIsInitialized,
                 initializationPromise, loadPc, loadValue, loads, lastLoadDone, lastLoadOk,
                 callerVars, poolVars, handlerVars>>

\* refreshTools(): clearCache(), then listTools()
SvcRefreshTools ==
  /\ scenario = "service"
  /\ toolsCache' = [toolsCache EXCEPT ![TheSvc] = NoCache]
  /\ clearedSince' = [clearedSince EXCEPT ![TheSvc] = TRUE]
  /\ ListToolsOn(TheSvc, NoCache)
  /\ refreshPc' = IF InitializationInProgress(TheSvc) \/ refreshPc = "joined"
                  THEN "joined" ELSE "own"
  /\ UNCHANGED <<refreshGot, arxivVars, callsVars, streamVars, resultVars, nvidiaVars, toolVars, researchVars, endpointVars, closeCalled, scenario, now, svcExists, svcIsInitialized, lastLoadDone, lastLoadOk, ltClosing,
                 poolVars, handlerVars>>

\* close() up to "await this.mcpClient.close()" (nothing to do without a client)
SvcCloseBegin ==
  /\ scenario = "service"
  /\ ~MicrotaskPending
  /\ mcpClient[TheSvc] # "null"
  /\ CallsInFlight < MaxCallers
  /\ ltClosing' = ltClosing + 1
  /\ closeCalled' = [closeCalled EXCEPT ![TheSvc] = TRUE]
  /\ UNCHANGED <<arxivVars, callsVars, streamVars, resultVars, nvidiaVars, toolVars, researchVars, endpointVars, scenario, now, svcVars, ltWaiting, lastHanded, refreshPc, refreshGot, poolVars, handlerVars>>

\* close(): the client's close() returns or throws; the finally block runs
SvcCloseEnd ==
  /\ scenario = "service"
  /\ ltClosing > 0
  /\ ~MicrotaskPending
  /\ ltClosing' = ltClosing - 1
  /\ mcpClient' = CloseEffect(mcpClient, TheSvc)
  /\ svcIsInitialized' = [svcIsInitialized EXCEPT ![TheSvc] = FALSE]
  /\ UNCHANGED <<arxivVars, callsVars, streamVars, resultVars, nvidiaVars, toolVars, researchVars, endpointVars, closeCalled, scenario, now, svcExists, toolsCache, initializationPromise, loadPc,
                 loadValue, loads, lastLoadDone, lastLoadOk, clearedSince, ltWaiting, lastHanded,
                 refreshPc, refreshGot, poolVars, handlerVars>>

\* ------------------------------------------------------------------ clock
Tick ==
  /\ ~MicrotaskPending
  /\ now + TimeUnit <= MaxNow
  /\ now' = now + TimeUnit
  /\ UNCHANGED <<arxivVars, callsVars, streamVars, resultVars, nvidiaVars, toolVars, researchVars, endpointVars, closeCalled, scenario, svcVars, callerVars, poolVars, handlerVars>>

\* ------------------------------------------------ MCPService (src/server/utils/mcp.ts)
\* One searchArxiv call of one MCPService object.  Time is kept as the value of
\* Date.now() - startTime of the wait in progress, which is all the code reads.

connectionTimeout == 30000
requestTimeout == 45000
initResponseTimeout == 5000
fallbackAbortTimeout == 15000
firstCheckDelay == 500
pollInterval == 100

\* stdout chunks the client keeps per call, and the largest elapsed time followed
MaxChunks == 2
MaxElapsed == 46000

\* What a stdout chunk can be:
\*   init_ok         the JSON-RPC result of request 1
\*   call_ok         result of request 2, inner text {success:true, papers:[...]}
\*   call_fail       result of request 2, inner text {success:false, error:"..."}
\*   call_fail_noerr result of request 2, inner text {success:false}
\*   call_err        JSON-RPC error envelope for request 2
\*   call_badinner   result of request 2 whose inner text is not JSON
\*   log_error       a line that is not JSON and holds the word error
ChunkKinds == {"init_ok", "call_ok", "call_fail", "call_fail_noerr", "call_err",
               "call_badinner", "log_error"}
\* the only stderr text the client acts on is the line announcing the server started
StderrKinds == {"ready"}

\* Scenario "stream" takes the child's stdout as text that reaches the 'data'
\* listener in pieces:
\*   call_badinner_error  as call_badinner, the inner text holding the word error
\*   noise_id2            a log line holding the characters "id":2
\*   call_ok_head         the first part of a call_ok line cut in two
\*   call_ok_tail         its second part, holding "id":2
\*   log_and_call_ok      a log line and a call_ok line in one chunk
\*   ready_text           a log line holding the words server started
\*   log                  a log line holding none of the texts looked for
StreamChunks == {"init_ok", "call_ok", "call_badinner", "call_badinner_error", "noise_id2",
                 "call_ok_head", "call_ok_tail", "log_and_call_ok", "ready_text"}
MaxStreamChunks == 3

\* what may follow on stdout when rs was delivered and the call is at pc: the second
\* part of a line follows the first, and the server answers a request only after
\* the client wrote it
LogChunks == {"noise_id2", "ready_text"}
NextChunks(rs, pc) ==
  IF rs # <<>> /\ rs[Len(rs)] = "call_ok_head" THEN {"call_ok_tail"}
  ELSE IF pc \in {"sendCall", "waitCall"} THEN StreamChunks \ {"call_ok_tail"}
  ELSE IF pc \in {"sendInit", "waitInit"} THEN LogChunks \cup {"init_ok"}
  ELSE LogChunks

IncludesId1(c) == c = "init_ok"
IncludesId2(c) ==
  c \in {"call_ok", "call_fail", "call_fail_noerr", "call_err", "call_badinner",
         "call_badinner_error", "noise_id2", "call_ok_tail", "log_and_call_ok"}
IncludesError(c) == c \in {"call_fail", "call_err", "log_error", "call_badinner_error"}
IsJson(c) ==
  c \notin {"log_error", "noise_id2", "call_ok_head", "call_ok_tail", "log_and_call_ok",
            "ready_text", "log"}
\* parsed.result?.content?.[0]?.text is there and JSON.parse accepts it
HasInnerResult(c) == c \in {"call_ok", "call_fail", "call_fail_noerr"}
InnerSuccessAndPapers(c) == c = "call_ok"
InnerError(c) == IF c = "call_fail" THEN "ArXiv query failed" ELSE ""
EnvelopeMessage(c) == IF c = "call_err" THEN "Unknown tool" ELSE ""

Absent == "<absent>"
NoArxivResult == [success |-> FALSE, error |-> Absent, papers |-> Absent, servedBy |-> Absent]
SuccessResult == [success |-> TRUE, error |-> Absent, papers |-> "list", servedBy |-> Absent]
FailureResult(msg) == [success |-> FALSE, error |-> msg, papers |-> "[]", servedBy |-> Absent]

\* a || b on strings
OrDefaultKeep(v, d) == v
OrDefault(v, d) == IF v = "" THEN d ELSE v

Min(S) == CHOOSE x \in S : \A y \in S : x <= y
Answering(rs) == {i \in 1..Len(rs) : IncludesId2(rs[i]) /\ HasInnerResult(rs[i])}
ErrorChunks(rs) == {i \in 1..Len(rs) : IncludesError(rs[i])}

parseSearchResponse(rs) ==
  IF Answering(rs) # {}
  THEN LET c == rs[Min(Answering(rs))] IN
       IF InnerSuccessAndPapers(c)
       THEN SuccessResult
       ELSE FailureResult(OrDefault(InnerError(c), "No papers found"))
  ELSE IF ErrorChunks(rs) # {}
  THEN LET c == rs[Min(ErrorChunks(rs))] IN
       IF IsJson(c)
       THEN FailureResult(OrDefault(EnvelopeMessage(c), "Server error"))
       ELSE FailureResult("Server returned an error")
  ELSE FailureResult("No valid response received from server")

FetchOutcomes == {"ok", "http_error", "network_error", "aborted"}
FetchError(o) ==
  IF o = "http_error" THEN "ArXiv API returned 503: Service Unavailable"
  ELSE IF o = "network_error" THEN "fetch failed"
  ELSE "The operation was aborted due to timeout"
fallbackArxivSearch(o) ==
  IF o = "ok" THEN SuccessResult
  ELSE FailureResult("Fallback search failed: " \o FetchError(o))

StartupTimeoutMsg == "Server startup timeout"
StartupDiedMsg == "Server process died during startup"
NoStreamsMsg == "Failed to create server process with required streams"
SpawnThrowsMsg == "spawn EAGAIN"
WriteFailedMsg == "Failed to send message: write EPIPE"
ResponseTimeoutMsg(pc) ==
  IF pc = "waitInit" THEN "Response timeout waiting for: id 1"
  ELSE "Response timeout waiting for: id 2"

\* error instanceof Error && error.message.includes('timeout')
IsTimeoutErrorAny(msg) == TRUE
IsTimeoutError(msg) ==
  msg \in {StartupTimeoutMsg, ResponseTimeoutMsg("waitInit"), ResponseTimeoutMsg("waitCall")}

\* Date.now() - startTime > limit
TimedOutNever(elapsed, limit) == FALSE
TimedOut(elapsed, limit) == elapsed > limit

IsReady(logs) == "ready" \in logs
HasResponseAlways(rs, pc) == TRUE
HasResponseOrStderr(rs, pc) ==
  \/ \E i \in 1..Len(rs) : IF pc = "waitInit" THEN IncludesId1(rs[i]) ELSE IncludesId2(rs[i])
  \/ \E p \in DOMAIN pErrText : pErrText[p]
HasResponse(rs, pc) ==
  \E i \in 1..Len(rs) : IF pc = "waitInit" THEN IncludesId1(rs[i]) ELSE IncludesId2(rs[i])
TimeoutOf(pc) == IF pc = "waitInit" THEN initResponseTimeout ELSE requestTimeout

ProtocolPhases == {"waitReady", "sendInit", "waitInit", "sendCall", "waitCall"}
ResponseWaits == {"waitInit", "waitCall"}

\* Pool and standalone-service variables take no part in a searchArxiv call.
mcpIdle == <<now, svcVars, callerVars, poolVars, closeCalled, handlerVars>>

\* finally { if (serverProcess) this.cleanupProcess(serverProcess) }
cleanupProcess(spawned) == spawned > 0

\* return of searchArxiv with the finally block
Settle(res, spawned) ==
  /\ aPc' = "done"
  /\ aSettled' = "resolved"
  /\ aResult' = res
  /\ aSigterm' = cleanupProcess(spawned)
  /\ aElapsed' = 0
  /\ aNextCheck' = 0

\* the catch block of searchArxiv
Catch(msg, spawned) ==
  /\ aThrown' = msg
  /\ IF IsTimeoutError(msg)
     THEN /\ aPc' = "fallback"
          /\ aFallbackCalled' = TRUE
          /\ aElapsed' = 0
          /\ aNextCheck' = 0
          /\ UNCHANGED <<aSettled, aResult, aSigterm>>
     ELSE /\ Settle(FailureResult(msg), spawned)
          /\ UNCHANGED aFallbackCalled

\* checkResponse() run synchronously by waitForResponse, and what follows a hit
BeginWait(pc, rs) ==
  IF HasResponse(rs, pc)
  THEN IF pc = "waitInit"
       THEN /\ aPc' = "sendCall"
            /\ aWritten' = Append(aWritten, 2)
            /\ aElapsed' = 0
            /\ aNextCheck' = 0
            /\ UNCHANGED <<aSettled, aResult, aSigterm>>
       ELSE /\ Settle(parseSearchResponse(rs), aSpawned)
            /\ UNCHANGED aWritten
  ELSE /\ aPc' = pc
       /\ aElapsed' = 0
       /\ aNextCheck' = pollInterval
       /\ UNCHANGED <<aSettled, aResult, aSigterm, aWritten>>

\* ---- handleResearchQuery (part_004): Promise.race of searchArxiv and a 30 s timer
handlerDeadline == 30000
QuickFetch == 1000      \* ms a fetch of the arXiv API takes when it is answered

InArxiv == scenario \in {"arxiv", "research"}

\* what the handler does with the result searchArxiv resolved to
ResponseFor(res) == IF res.success THEN "answer" ELSE "Research search failed"
DeadlineResponse == "Research processing failed: ArXiv search timeout"

\* A step of the searchArxiv call taken `total` ms after the handler started: in
\* the "research" scenario it comes before the handler's timer unless that timer is
\* due earlier, and the handler goes on when the call has resolved.
Handler(total) ==
  IF scenario = "research"
  THEN /\ hResponse = "none"
       /\ total <= handlerDeadline
       /\ hBase' = total - aElapsed'
       /\ hResponse' = IF aSettled' = "resolved" THEN ResponseFor(aResult') ELSE "none"
  ELSE UNCHANGED researchVars

\* how long the fetch of the fallback runs before it ends as o
FetchTimes(o) == IF o = "aborted" THEN {fallbackAbortTimeout} ELSE {QuickFetch}

\* the earliest time at which the next step of the call can come
NextStepAt ==
  IF aPc \in {"waitReady", "waitInit", "waitCall"} THEN hBase + aNextCheck
  ELSE IF aPc = "fallback" THEN hBase + fallbackAbortTimeout
  ELSE hBase

\* the setTimeout(() => reject(new Error('ArXiv search timeout')), 30000) callback;
\* the catch block builds the error response
HandlerDeadline ==
  /\ scenario = "research"
  /\ hResponse = "none"
  /\ aPc \notin {"idle", "done"}
  /\ NextStepAt >= handlerDeadline
  /\ hResponse' = DeadlineResponse
  /\ UNCHANGED <<hBase, scenario, mcpIdle, arxivVars, callsVars, streamVars, resultVars,
                 nvidiaVars, toolVars, endpointVars>>

InitResearchVars ==
  /\ hBase = 0
  /\ hResponse = "none"

SearchArxiv ==
  /\ InArxiv
  /\ aPc = "idle"
  /\ IF ~isServerAvailable
     THEN /\ aPc' = "fallback"
          /\ aFallbackCalled' = TRUE
          /\ UNCHANGED <<aElapsed, aNextCheck, childAlive, aSettled, aResult, aSpawned,
                         aSigterm, aThrown>>
     ELSE \E sp \in {"ok", "throws", "nostreams"} :
            IF sp = "ok"
            THEN /\ aSpawned' = aSpawned + 1
                 /\ childAlive' = TRUE
                 /\ aPc' = "waitReady"
                 /\ aElapsed' = 0
                 /\ aNextCheck' = firstCheckDelay
                 /\ UNCHANGED <<aSettled, aResult, aSigterm, aThrown, aFallbackCalled>>
            ELSE IF sp = "nostreams"
            THEN /\ aSpawned' = aSpawned + 1
                 /\ Catch(NoStreamsMsg, aSpawned + 1)
                 /\ UNCHANGED childAlive
            ELSE /\ Catch(SpawnThrowsMsg, aSpawned)
                 /\ UNCHANGED <<aSpawned, childAlive>>
  /\ UNCHANGED <<callsVars, streamVars, resultVars, nvidiaVars, toolVars, endpointVars, scenario, mcpIdle, isServerAvailable, errorLogs, responses,
                 aFallbackOutcome, aCallSent, aExitWhileWaiting, aPolledSinceExit,
                 aWritten>>
  /\ Handler(0)

ChildRunning == InArxiv /\ childAlive /\ aPc \in ProtocolPhases

\* In the "research" scenario the server writes what it writes before the first check
\* of the wait it ends, or never.
ChildStderr ==
  /\ ChildRunning
  /\ scenario = "research" => (aPc = "waitReady" /\ aElapsed = 0)
  /\ \E k \in StderrKinds : errorLogs' = errorLogs \cup {k}
  /\ errorLogs' # errorLogs
  /\ UNCHANGED <<callsVars, streamVars, resultVars, nvidiaVars, toolVars, endpointVars, scenario, mcpIdle, isServerAvailable, aPc, aElapsed, aNextCheck, childAlive,
                 responses, aSettled, aResult, aSpawned, aSigterm, aThrown, aFallbackCalled,
                 aFallbackOutcome, aCallSent, aExitWhileWaiting, aPolledSinceExit,
                 aWritten>>
  /\ Handler(hBase + aElapsed)

ChildStdout ==
  /\ ChildRunning
  /\ Len(responses) < MaxChunks
  /\ \E c \in ChunkKinds :
       /\ scenario = "research" =>
            /\ aElapsed = 0
            /\ \/ aPc = "waitInit" /\ c = "init_ok"
               \/ aPc = "waitCall" /\ c = "call_ok"
       /\ responses' = Append(responses, c)
  /\ UNCHANGED <<callsVars, streamVars, resultVars, nvidiaVars, toolVars, endpointVars, scenario, mcpIdle, isServerAvailable, aPc, aElapsed, aNextCheck, childAlive,
                 errorLogs, aSettled, aResult, aSpawned, aSigterm, aThrown, aFallbackCalled,
                 aFallbackOutcome, aCallSent, aExitWhileWaiting, aPolledSinceExit,
                 aWritten>>
  /\ Handler(hBase + aElapsed)

ChildExit ==
  /\ ChildRunning
  /\ childAlive' = FALSE
  /\ aExitWhileWaiting' = (aExitWhileWaiting \/ aPc \in ResponseWaits)
  /\ UNCHANGED <<callsVars, streamVars, resultVars, nvidiaVars, toolVars, endpointVars, scenario, mcpIdle, isServerAvailable, aPc, aElapsed, aNextCheck, errorLogs,
                 responses, aSettled, aResult, aSpawned, aSigterm, aThrown, aFallbackCalled,
                 aFallbackOutcome, aCallSent, aPolledSinceExit, aWritten>>
  /\ Handler(hBase + aElapsed)

\* the setTimeout(checkReady, ...) callback of waitForServerReady
PollReady ==
  /\ InArxiv
  /\ aPc = "waitReady"
  /\ aNextCheck <= MaxElapsed
  /\ IF IsReady(errorLogs)
     THEN /\ aPc' = "sendInit"
          /\ aWritten' = Append(aWritten, 1)
          /\ aElapsed' = 0
          /\ aNextCheck' = 0
          /\ UNCHANGED <<aSettled, aResult, aSigterm, aThrown, aFallbackCalled>>
     ELSE IF TimedOut(aNextCheck, connectionTimeout)
     THEN Catch(StartupTimeoutMsg, aSpawned) /\ UNCHANGED aWritten
     ELSE IF ~childAlive
     THEN Catch(StartupDiedMsg, aSpawned) /\ UNCHANGED aWritten
     ELSE /\ aElapsed' = aNextCheck
          /\ aNextCheck' = aNextCheck + pollInterval
          /\ UNCHANGED <<aPc, aSettled, aResult, aSigterm, aThrown, aFallbackCalled,
                         aWritten>>
  /\ UNCHANGED <<callsVars, streamVars, resultVars, nvidiaVars, toolVars, endpointVars, scenario, mcpIdle, isServerAvailable, childAlive, errorLogs, responses,
                 aSpawned, aFallbackOutcome, aCallSent, aExitWhileWaiting, aPolledSinceExit>>
  /\ Handler(hBase + aNextCheck)

\* the callback of stdin.write in sendMCPMessage, then waitForResponse's first check
WriteDone ==
  /\ InArxiv
  /\ aPc \in {"sendInit", "sendCall"}
  /\ \E ok \in BOOLEAN :
       IF ok
       THEN /\ BeginWait(IF aPc = "sendInit" THEN "waitInit" ELSE "waitCall", responses)
            /\ aCallSent' = (aCallSent \/ aPc = "sendCall")
            /\ UNCHANGED <<aThrown, aFallbackCalled>>
       ELSE /\ Catch(WriteFailedMsg, aSpawned)
            /\ UNCHANGED <<aCallSent, aWritten>>
  /\ UNCHANGED <<callsVars, streamVars, resultVars, nvidiaVars, toolVars, endpointVars, scenario, mcpIdle, isServerAvailable, childAlive, errorLogs, responses,
                 aSpawned, aFallbackOutcome, aExitWhileWaiting, aPolledSinceExit>>
  /\ Handler(hBase + aElapsed)

\* the setTimeout(checkResponse, 100) callback of waitForResponse
PollResponse ==
  /\ InArxiv
  /\ aPc \in ResponseWaits
  /\ aNextCheck <= MaxElapsed
  /\ IF HasResponse(responses, aPc)
     THEN /\ BeginWait(aPc, responses)
          /\ UNCHANGED <<aThrown, aFallbackCalled, aPolledSinceExit>>
     ELSE IF TimedOut(aNextCheck, TimeoutOf(aPc))
     THEN /\ Catch(ResponseTimeoutMsg(aPc), aSpawned)
          /\ UNCHANGED <<aPolledSinceExit, aWritten>>
     ELSE /\ aElapsed' = aNextCheck
          /\ aNextCheck' = aNextCheck + pollInterval
          /\ aPolledSinceExit' = (aPolledSinceExit \/ aExitWhileWaiting)
          /\ UNCHANGED <<aPc, aSettled, aResult, aSigterm, aThrown, aFallbackCalled,
                         aWritten>>
  /\ UNCHANGED <<callsVars, streamVars, resultVars, nvidiaVars, toolVars, endpointVars, scenario, mcpIdle, isServerAvailable, childAlive, errorLogs, responses,
                 aSpawned, aFallbackOutcome, aCallSent, aExitWhileWaiting>>
  /\ Handler(hBase + aNextCheck)

\* the fetch of fallbackArxivSearch settles, or its 15 s abort signal fires
FallbackSettle ==
  /\ InArxiv
  /\ aPc = "fallback"
  /\ \E o \in FetchOutcomes :
       /\ aFallbackOutcome' = o
       /\ Settle(fallbackArxivSearch(o), aSpawned)
       /\ \E d \in FetchTimes(o) : Handler(hBase + d)
  /\ UNCHANGED <<callsVars, streamVars, resultVars, nvidiaVars, toolVars, endpointVars, scenario, mcpIdle, isServerAvailable, childAlive, errorLogs, responses,
                 aSpawned, aThrown, aFallbackCalled, aCallSent, aExitWhileWaiting,
                 aPolledSinceExit, aWritten>>

InitArxivCall ==
  /\ aPc = "idle"
  /\ aElapsed = 0
  /\ aNextCheck = 0
  /\ childAlive = FALSE
  /\ errorLogs = {}
  /\ responses = <<>>
  /\ aSettled = "pending"
  /\ aResult = NoArxivResult
  /\ aSpawned = 0
  /\ aSigterm = FALSE
  /\ aThrown = ""
  /\ aFallbackCalled = FALSE
  /\ aFallbackOutcome = "none"
  /\ aCallSent = FALSE
  /\ aExitWhileWaiting = FALSE
  /\ aPolledSinceExit = FALSE
  /\ aWritten = <<>>

\* ------------------------------ MCPService: concurrent calls and process lifetime
\* searchArxiv calls on the one MCPService object, each with the process it spawned.
\* Scenario "calls": calls in progress at the same time.  Scenario "lifetime": one
\* call after the other, with close() calls and the 2 s timers of cleanupProcess.
\* Elapsed time is not kept here: a timer callback may run late, so a check finds
\* its deadline either passed or not.

MaxCalls == 2       \* searchArxiv calls in progress at the same time
MaxProcs == 2       \* processes spawned in all
MaxCloses == 1      \* close() calls waiting for their 1 s timer

Calls == 1..MaxCalls
Procs == 1..MaxProcs

\* what the fetch of a call's fallback does: it delivers a feed, or it is aborted
CallFetchOutcomes == {"ok", "aborted"}

\* what the server answers to a request it has read
AnswerKinds == {"call_ok", "call_fail"}
Chunk(p, k) == [from |-> p, kind |-> k]
Kinds(rs) == [i \in 1..Len(rs) |-> rs[i].kind]

\* the call whose responses / errorLogs arrays the listeners of process p push to
OwnerOfFirst(p) == Min(Calls)
OwnerOf(p) == CHOOSE c \in Calls : cProc[c] = p
HasOwner(p) == \E c \in Calls : cProc[c] = p

\* cleanupProcess: "if (!serverProcess.killed)"
ShouldSignalAlways(p) == TRUE
ShouldSignal(p) == ~pKilled[p]

\* kill(signal) reaches the process only while it runs, and then sets killed
Delivered(S) == {p \in S : ShouldSignal(p) /\ pState[p] = "running"}

\* cleanupProcess on every process of S
CleanupProcesses(S) ==
  /\ pKilled' = [p \in Procs |-> pKilled[p] \/ p \in Delivered(S)]
  /\ pTerm' = [p \in Procs |-> pTerm[p] + (IF p \in Delivered(S) THEN 1 ELSE 0)]
  /\ pGrace' = [p \in Procs |-> pGrace[p] + (IF p \in S /\ ShouldSignal(p) THEN 1 ELSE 0)]
  /\ pCleanups' = [p \in Procs |-> pCleanups[p] + (IF p \in S THEN 1 ELSE 0)]
  /\ activeProcesses' = activeProcesses \ S

\* finally { if (serverProcess) this.cleanupProcess(serverProcess) }
FinallyTargetsNone(proc) == {}
FinallyTargets(proc) == IF proc # 0 THEN {proc} ELSE {}

\* return of searchArxiv call c, holding process proc, with the finally block; the
\* call's responses array is dropped with its other locals
SettleCall(c, res, proc) ==
  /\ cPc' = [cPc EXCEPT ![c] = "done"]
  /\ cResult' = [cResult EXCEPT ![c] = res]
  /\ cResponses' = [cResponses EXCEPT ![c] = <<>>]
  /\ CleanupProcesses(FinallyTargets(proc))

\* the catch block of searchArxiv
CatchCall(c, msg, proc) ==
  /\ cThrown' = [cThrown EXCEPT ![c] = msg]
  /\ IF IsTimeoutError(msg)
     THEN /\ cPc' = [cPc EXCEPT ![c] = "fallback"]
          /\ cResponses' = [cResponses EXCEPT ![c] = <<>>]
          /\ UNCHANGED <<cResult, pKilled, pTerm, pGrace, pCleanups, activeProcesses>>
     ELSE SettleCall(c, FailureResult(msg), proc)

\* waitForResponse's first checkResponse() and what follows a hit
BeginWaitCall(c, pc) ==
  IF HasResponse(Kinds(cResponses[c]), pc)
  THEN IF pc = "waitInit"
       THEN /\ cPc' = [cPc EXCEPT ![c] = "sendCall"]
            /\ UNCHANGED <<cResponses, cResult, pKilled, pTerm, pGrace, pCleanups,
                           activeProcesses>>
       ELSE SettleCall(c, parseSearchResponse(Kinds(cResponses[c])), cProc[c])
  ELSE /\ cPc' = [cPc EXCEPT ![c] = pc]
       /\ UNCHANGED <<cResponses, cResult, pKilled, pTerm, pGrace, pCleanups,
                      activeProcesses>>

\* everything that is not part of the "calls" scenario
callsIdle == <<scenario, mcpIdle, arxivVars, streamVars, resultVars, nvidiaVars, toolVars, researchVars, endpointVars>>

\* searchArxiv up to its first await, as call c
StartCall(c) ==
  /\ IF ~isServerAvailable
     THEN /\ cPc' = [cPc EXCEPT ![c] = "fallback"]
          /\ cProc' = [cProc EXCEPT ![c] = 0]
          /\ cThrown' = [cThrown EXCEPT ![c] = ""]
          /\ cResult' = [cResult EXCEPT ![c] = NoArxivResult]
          /\ UNCHANGED <<cResponses, spawnedProcs, pState, pKilled, pTerm, pGrace, pCleanups,
                         activeProcesses>>
     ELSE \E sp \in {"ok", "throws", "nostreams"} :
            IF sp = "throws"
            THEN /\ cProc' = [cProc EXCEPT ![c] = 0]
                 /\ CatchCall(c, SpawnThrowsMsg, 0)
                 /\ UNCHANGED <<spawnedProcs, pState>>
            ELSE /\ spawnedProcs < MaxProcs
                 /\ spawnedProcs' = spawnedProcs + 1
                 /\ cProc' = [cProc EXCEPT ![c] = spawnedProcs + 1]
                 /\ IF sp = "ok"
                    THEN /\ pState' = [pState EXCEPT ![spawnedProcs + 1] = "running"]
                         /\ activeProcesses' = activeProcesses \cup {spawnedProcs + 1}
                         /\ cPc' = [cPc EXCEPT ![c] = "waitReady"]
                         /\ cThrown' = [cThrown EXCEPT ![c] = ""]
                         /\ cResult' = [cResult EXCEPT ![c] = NoArxivResult]
                         /\ UNCHANGED <<cResponses, pKilled, pTerm, pGrace, pCleanups>>
                    ELSE /\ pState' = [pState EXCEPT ![spawnedProcs + 1] = "failed"]
                         /\ CatchCall(c, NoStreamsMsg, spawnedProcs + 1)
  /\ UNCHANGED <<callsIdle, pReady, pSigkill, pGraceRanAlive, closesWaiting>>

InCalls == scenario \in {"calls", "lifetime", "stream"}

\* a searchArxiv call made while others are in progress
CallSearchArxiv(c) ==
  /\ scenario = "calls"
  /\ cPc[c] = "idle"
  /\ StartCall(c)

\* a searchArxiv call made after the previous one returned
NextSearchArxiv ==
  /\ scenario = "lifetime"
  /\ cPc[Min(Calls)] \in {"idle", "done"}
  /\ StartCall(Min(Calls))

\* the one searchArxiv call of the "stream" scenario
StreamSearchArxiv ==
  /\ scenario = "stream"
  /\ cPc[Min(Calls)] = "idle"
  /\ StartCall(Min(Calls))

\* the child of a call prints its ready line on stderr
ProcReady(p) ==
  /\ InCalls
  /\ pState[p] = "running"
  /\ ~pReady[p]
  /\ HasOwner(p)
  /\ cPc[OwnerOf(p)] = "waitReady"
  /\ pReady' = [pReady EXCEPT ![p] = TRUE]
  /\ UNCHANGED <<callsIdle, cPc, cProc, cResponses, cThrown, cResult, spawnedProcs, pState,
                 pKilled, pTerm, pSigkill, pGrace, pGraceRanAlive, pCleanups,
                 activeProcesses, closesWaiting>>

\* the child answers the request it was sent last, once; its stdout listener pushes
\* the chunk to the responses array of the call that spawned it
ProcAnswer(p) ==
  /\ scenario \in {"calls", "lifetime"}
  /\ pState[p] = "running"
  /\ HasOwner(p)
  /\ LET c == OwnerOf(p)
         rs == Kinds(cResponses[c])
     IN \/ /\ cPc[c] \in {"sendInit", "waitInit"}
           /\ ~HasResponse(rs, "waitInit")
           /\ cResponses' = [cResponses EXCEPT ![OwnerOf(p)] = Append(@, Chunk(p, "init_ok"))]
        \/ /\ cPc[c] \in {"sendCall", "waitCall"}
           /\ ~HasResponse(rs, "waitCall")
           /\ \E k \in AnswerKinds :
                cResponses' = [cResponses EXCEPT ![OwnerOf(p)] = Append(@, Chunk(p, k))]
  /\ UNCHANGED <<callsIdle, cPc, cProc, cThrown, cResult, spawnedProcs, pState, pReady,
                 pKilled, pTerm, pSigkill, pGrace, pGraceRanAlive, pCleanups,
                 activeProcesses, closesWaiting>>

\* a piece of the child's stdout text reaches the stdout listener
ProcEmit(p) ==
  /\ scenario = "stream"
  /\ pState[p] = "running"
  /\ HasOwner(p)
  /\ cPc[OwnerOf(p)] \in ProtocolPhases
  /\ Len(cResponses[OwnerOf(p)]) < MaxStreamChunks
  /\ \E k \in NextChunks(Kinds(cResponses[OwnerOf(p)]), cPc[OwnerOf(p)]) :
       cResponses' = [cResponses EXCEPT ![OwnerOf(p)] = Append(@, Chunk(p, k))]
  /\ UNCHANGED <<callsIdle, cPc, cProc, cThrown, cResult, spawnedProcs, pState, pReady,
                 pKilled, pTerm, pSigkill, pGrace, pGraceRanAlive, pCleanups,
                 activeProcesses, closesWaiting>>

\* the child prints the text of a response on stderr; the stderr listener pushes it
\* to errorLogs
ProcStderrText(p) ==
  /\ scenario = "stream"
  /\ pState[p] = "running"
  /\ HasOwner(p)
  /\ cPc[OwnerOf(p)] \in ProtocolPhases
  /\ ~pErrText[p]
  /\ pErrText' = [pErrText EXCEPT ![p] = TRUE]
  /\ UNCHANGED <<scenario, mcpIdle, arxivVars, resultVars, nvidiaVars, toolVars, researchVars, endpointVars, callsVars>>

\* the process exits; its 'exit' handler removes it from activeProcesses
ProcExit(p) ==
  /\ InCalls
  /\ pState[p] = "running"
  /\ pState' = [pState EXCEPT ![p] = "exited"]
  /\ activeProcesses' = activeProcesses \ {p}
  /\ UNCHANGED <<callsIdle, cPc, cProc, cResponses, cThrown, cResult, spawnedProcs, pReady,
                 pKilled, pTerm, pSigkill, pGrace, pGraceRanAlive, pCleanups,
                 closesWaiting>>

\* checkReady of call c; late: Date.now() - startTime > connectionTimeout
CallPollReady(c) ==
  /\ InCalls
  /\ cPc[c] = "waitReady"
  /\ IF pReady[cProc[c]]
     THEN /\ cPc' = [cPc EXCEPT ![c] = "sendInit"]
          /\ UNCHANGED <<cResponses, cThrown, cResult, pKilled, pTerm, pGrace, pCleanups,
                         activeProcesses>>
     ELSE \E late \in BOOLEAN :
            IF late
            THEN CatchCall(c, StartupTimeoutMsg, cProc[c])
            ELSE /\ pKilled[cProc[c]] \/ pState[cProc[c]] # "running"
                 /\ CatchCall(c, StartupDiedMsg, cProc[c])
  /\ UNCHANGED <<callsIdle, cProc, spawnedProcs, pState, pReady, pSigkill,
                 pGraceRanAlive, closesWaiting>>

\* the stdin.write callback of call c, then waitForResponse's first check
CallWriteDone(c) ==
  /\ InCalls
  /\ cPc[c] \in {"sendInit", "sendCall"}
  /\ \E ok \in BOOLEAN :
       IF ok
       THEN /\ BeginWaitCall(c, IF cPc[c] = "sendInit" THEN "waitInit" ELSE "waitCall")
            /\ UNCHANGED cThrown
       ELSE CatchCall(c, WriteFailedMsg, cProc[c])
  /\ UNCHANGED <<callsIdle, cProc, spawnedProcs, pState, pReady, pSigkill,
                 pGraceRanAlive, closesWaiting>>

\* checkResponse of call c finds the response, or finds its deadline passed
CallPollResponse(c) ==
  /\ InCalls
  /\ cPc[c] \in ResponseWaits
  /\ IF HasResponse(Kinds(cResponses[c]), cPc[c])
     THEN /\ BeginWaitCall(c, cPc[c])
          /\ UNCHANGED cThrown
     ELSE CatchCall(c, ResponseTimeoutMsg(cPc[c]), cProc[c])
  /\ UNCHANGED <<callsIdle, cProc, spawnedProcs, pState, pReady, pSigkill,
                 pGraceRanAlive, closesWaiting>>

\* the fallback fetch of call c settles; searchArxiv returns through its finally
CallFallbackSettle(c) ==
  /\ InCalls
  /\ cPc[c] = "fallback"
  /\ \E o \in CallFetchOutcomes : SettleCall(c, fallbackArxivSearch(o), cProc[c])
  /\ UNCHANGED <<callsIdle, cProc, cThrown, spawnedProcs, pState, pReady,
                 pSigkill, pGraceRanAlive, closesWaiting>>

\* cleanupProcess's 2 s timer: "if (!serverProcess.killed) serverProcess.kill('SIGKILL')"
GraceTimer(p) ==
  /\ scenario = "lifetime"
  /\ pGrace[p] > 0
  /\ pGrace' = [pGrace EXCEPT ![p] = @ - 1]
  /\ pGraceRanAlive' = [pGraceRanAlive EXCEPT ![p] = @ \/ pState[p] = "running"]
  /\ IF ~pKilled[p] /\ pState[p] = "running"
     THEN /\ pSigkill' = [pSigkill EXCEPT ![p] = TRUE]
          /\ pKilled' = [pKilled EXCEPT ![p] = TRUE]
     ELSE UNCHANGED <<pSigkill, pKilled>>
  /\ UNCHANGED <<callsIdle, cPc, cProc, cResponses, cThrown, cResult, spawnedProcs, pState,
                 pReady, pTerm, pCleanups, activeProcesses, closesWaiting>>

\* close() up to its await: cleanupProcess on every process of activeProcesses
CloseBegin ==
  /\ scenario = "lifetime"
  /\ closesWaiting < MaxCloses
  /\ closesWaiting' = closesWaiting + 1
  /\ CleanupProcesses(activeProcesses)
  /\ UNCHANGED <<callsIdle, cPc, cProc, cResponses, cThrown, cResult, spawnedProcs, pState,
                 pReady, pSigkill, pGraceRanAlive>>

\* close() after its 1 s timer: this.activeProcesses.clear()
CloseEnd ==
  /\ scenario = "lifetime"
  /\ closesWaiting > 0
  /\ closesWaiting' = closesWaiting - 1
  /\ activeProcesses' = {}
  /\ UNCHANGED <<callsIdle, cPc, cProc, cResponses, cThrown, cResult, spawnedProcs, pState,
                 pReady, pKilled, pTerm, pSigkill, pGrace, pGraceRanAlive, pCleanups>>

InitStreamVars == pErrText = [p \in Procs |-> FALSE]

InitCallsVars ==
  /\ cPc = [c \in Calls |-> "idle"]
  /\ cProc = [c \in Calls |-> 0]
  /\ cResponses = [c \in Calls |-> <<>>]
  /\ cThrown = [c \in Calls |-> ""]
  /\ cResult = [c \in Calls |-> NoArxivResult]
  /\ spawnedProcs = 0
  /\ pState = [p \in Procs |-> "none"]
  /\ pReady = [p \in Procs |-> FALSE]
  /\ pKilled = [p \in Procs |-> FALSE]
  /\ pTerm = [p \in Procs |-> 0]
  /\ pSigkill = [p \in Procs |-> FALSE]
  /\ pGrace = [p \in Procs |-> 0]
  /\ pGraceRanAlive = [p \in Procs |-> FALSE]
  /\ pCleanups = [p \in Procs |-> 0]
  /\ activeProcesses = {}
  /\ closesWaiting = 0

\* --------------------------------------- MCPService: the result objects it returns
\* The return statements of searchArxiv, parseSearchResponse and fallbackArxivSearch,
\* applied to what they are given.  Scenario "results".  A result is a record whose
\* DOMAIN is the set of properties of the object returned.

MaxPapers == 3          \* papers in one inner document or one Atom feed
MaxResultsArg == 2      \* the maxResults argument
MaxExecutionTime == 1   \* Date.now() - startTime

PaperIds == {"2301.00001", "2301.00002"}
PaperLists == UNION {[1..n -> PaperIds] : n \in 0..MaxPapers}
ExecutionTimes == 0..MaxExecutionTime

\* the document JSON.parse(resultText) yields: an object with success, with or
\* without papers, with or without error
InnerErrors == {"", "Unknown tool: search_arxiv"}
InnerDocuments ==
  [success : BOOLEAN] \cup [success : BOOLEAN, papers : PaperLists]
    \cup [success : BOOLEAN, error : InnerErrors]
    \cup [success : BOOLEAN, papers : PaperLists, error : InnerErrors]
Has(doc, f) == f \in DOMAIN doc
NoDocument == [success |-> FALSE]

\* papers.slice(0, n) for n >= 0
Slice(s, n) == SubSeq(s, 1, IF n < Len(s) THEN n ELSE Len(s))
Reversed(s) == [i \in 1..Len(s) |-> s[Len(s) + 1 - i]]

\* parseSearchResponse on the first chunk holding "id":2 and result.content[0].text,
\* doc being the parsed text
parseContentTextReversed(doc) ==
  IF doc.success /\ Has(doc, "papers")
  THEN [success |-> TRUE, papers |-> Reversed(doc.papers),
        total_results |-> Len(doc.papers), execution_time |-> 0]
  ELSE [success |-> FALSE, error |-> "No papers found", papers |-> <<>>]
parseContentText(doc) ==
  IF doc.success /\ Has(doc, "papers")
  THEN [success |-> TRUE, papers |-> doc.papers, total_results |-> Len(doc.papers),
        execution_time |-> 0]
  ELSE [success |-> FALSE,
        error |-> IF Has(doc, "error") THEN OrDefault(doc.error, "No papers found")
                  ELSE "No papers found",
        papers |-> <<>>]

\* { ...searchResult, execution_time: executionTime }
WithExecutionTime(r, t) ==
  [f \in DOMAIN r \cup {"execution_time"} |-> IF f = "execution_time" THEN t ELSE r[f]]

\* the object literal of searchArxiv's catch block
catchResult(msg, t) == [success |-> FALSE, error |-> msg, papers |-> <<>>, execution_time |-> t]

\* the object literals of fallbackArxivSearch, papers being what parseArxivXML returned
fallbackSuccess(papers, maxResults, t) ==
  [success |-> TRUE, papers |-> Slice(papers, maxResults), total_results |-> Len(papers),
   execution_time |-> t]
fallbackFailure(msg, t) ==
  [success |-> FALSE, error |-> "Fallback search failed: " \o msg, papers |-> <<>>,
   execution_time |-> t]

resultsIdle == <<scenario, mcpIdle, arxivVars, callsVars, streamVars, nvidiaVars, toolVars, researchVars, endpointVars>>

\* searchArxiv returns what executeSearchWorkflow parsed from the tools/call response
ProtocolReturn ==
  /\ scenario = "results"
  /\ \E doc \in InnerDocuments, m \in 1..MaxResultsArg, t \in ExecutionTimes :
       /\ rPath' = "protocol"
       /\ rDocument' = doc
       /\ rFeed' = <<>>
       /\ rThrown' = ""
       /\ rMaxResults' = m
       /\ rResult' = WithExecutionTime(parseContentText(doc), t)
  /\ UNCHANGED resultsIdle

\* searchArxiv returns from its catch block with an error that is not a timeout
ProtocolCatch ==
  /\ scenario = "results"
  /\ \E msg \in {StartupDiedMsg, NoStreamsMsg, WriteFailedMsg},
        m \in 1..MaxResultsArg, t \in ExecutionTimes :
       /\ rPath' = "catch"
       /\ rDocument' = NoDocument
       /\ rFeed' = <<>>
       /\ rThrown' = msg
       /\ rMaxResults' = m
       /\ rResult' = catchResult(msg, t)
  /\ UNCHANGED resultsIdle

\* fallbackArxivSearch returns after a response with status 2xx
FallbackReturn ==
  /\ scenario = "results"
  /\ \E papers \in PaperLists, m \in 1..MaxResultsArg, t \in ExecutionTimes :
       /\ rPath' = "fallback"
       /\ rDocument' = NoDocument
       /\ rFeed' = papers
       /\ rThrown' = ""
       /\ rMaxResults' = m
       /\ rResult' = fallbackSuccess(papers, m, t)
  /\ UNCHANGED resultsIdle

\* fallbackArxivSearch returns from its catch block
FallbackCatch ==
  /\ scenario = "results"
  /\ \E o \in FetchOutcomes \ {"ok"}, m \in 1..MaxResultsArg, t \in ExecutionTimes :
       /\ rPath' = "fallbackCatch"
       /\ rDocument' = NoDocument
       /\ rFeed' = <<>>
       /\ rThrown' = FetchError(o)
       /\ rMaxResults' = m
       /\ rResult' = fallbackFailure(FetchError(o), t)
  /\ UNCHANGED resultsIdle

InitResultVars ==
  /\ rPath = "none"
  /\ rDocument = NoDocument
  /\ rFeed = <<>>
  /\ rThrown = ""
  /\ rMaxResults = 1
  /\ rResult = [success |-> FALSE]

\* ------------------------------------------------------ fixNvidiaMessageFormat
\* The function that prepares the messages sent to the NVIDIA API, in its two
\* versions (part_009 returns LangChain message objects, part_012 plain objects).
\* Scenario "nvidia".  A message is a record of its role and its content; an output
\* message carries as role the one its class stands for (HumanMessage: user,
\* AIMessage: assistant, SystemMessage: system).

MaxMessages == 4        \* messages in an input array

\* roles of the messages of an array; "" is a plain object without a role property,
\* "tool" a role the function does not know
Roles == {"user", "assistant", "system", "tool", ""}
ArrayContents == {"", "hi"}
Contents == {"", " ", "hi"}
LangChainTypes == {"human", "ai", "system", "generic"}

Message(r, c) == [role |-> r, content |-> c]
MessageLists ==
  UNION {[1..n -> {Message(r, c) : r \in Roles, c \in ArrayContents}] : n \in 0..MaxMessages}

\* the argument: form "array" holds the elements; "indexed" the strings under "0"
\* and "1"; "single" a message object with a truthy role; "string" the string as
\* content; "langchain" the _getType() value as role and the content
NvidiaInputs ==
  {[form |-> "array", messages |-> m] : m \in MessageLists}
    \cup {[form |-> f, messages |-> <<Message(r, c)>>] :
            f \in {"indexed", "single"}, r \in Roles \ {""}, c \in Contents}
    \cup {[form |-> "string", messages |-> <<Message("", c)>>] : c \in Contents}
    \cup {[form |-> "langchain", messages |-> <<Message(ty, c)>>] :
            ty \in LangChainTypes, c \in Contents}

\* content.trim()
Trim(c) == IF c = " " THEN "" ELSE c

\* type === 'human' ? 'user' : type === 'ai' ? 'assistant' : type === 'system' ? 'system' : 'user'
RoleOfType(ty) ==
  IF ty = "human" THEN "user" ELSE IF ty = "ai" THEN "assistant"
  ELSE IF ty = "system" THEN "system" ELSE "user"

\* the messages array both versions build from the argument (a single LangChain
\* object: part_009 lines 252-258, part_012 lines 82 and 104-110)
MessagesOf(input) ==
  IF input.form = "string" THEN <<Message("user", input.messages[1].content)>>
  ELSE IF input.form = "langchain"
  THEN <<Message(RoleOfType(input.messages[1].role), input.messages[1].content)>>
  ELSE input.messages

\* part_009: role normalisation and the default for a missing role
NormalRole(r) ==
  IF r = "human" THEN "user" ELSE IF r = "ai" THEN "assistant"
  ELSE IF r = "" THEN "user" ELSE r

\* part_009: the switch choosing the message class
ClassRole(r) == IF r \in {"system", "assistant"} THEN r ELSE "user"

\* part_009: the loop over messages, last being lastRole ("<none>" for null)
RECURSIVE FixLoop(_, _)
FixLoop(msgs, last) ==
  IF msgs = <<>> THEN <<>>
  ELSE LET currentRole == NormalRole(Head(msgs).role)
           content == Head(msgs).content
       IN IF currentRole = last /\ currentRole # "system"
          THEN FixLoop(Tail(msgs), last)
          ELSE IF Trim(content) = "" /\ currentRole # "system"
          THEN FixLoop(Tail(msgs), last)
          ELSE <<Message(ClassRole(currentRole), Trim(content))>>
                 \o FixLoop(Tail(msgs), currentRole)

\* part_009: fixNvidiaMessageFormat
fixNvidiaMessageFormat(input) ==
  LET out == FixLoop(MessagesOf(input), "<none>")
  IN IF out = <<>> THEN <<Message("user", "Please respond.")>> ELSE out

\* part_012: the loop over messages
RECURSIVE DedupLoop(_, _)
DedupLoop(msgs, last) ==
  IF msgs = <<>> THEN <<>>
  ELSE LET currentRole == IF Head(msgs).role = "" THEN "user" ELSE Head(msgs).role
       IN IF currentRole = last /\ currentRole # "system"
          THEN DedupLoop(Tail(msgs), last)
          ELSE <<Message(currentRole, Head(msgs).content)>>
                 \o DedupLoop(Tail(msgs), currentRole)

\* part_012: fixNvidiaMessageFormat
fixNvidiaMessageFormatPlain(input) == DedupLoop(MessagesOf(input), "<none>")

nvidiaIdle == <<scenario, mcpIdle, arxivVars, callsVars, streamVars, resultVars, toolVars, researchVars, endpointVars>>

\* a call of part_009's function
FixMessages ==
  /\ scenario = "nvidia"
  /\ nvVariant = "none"
  /\ nvVariant' = "part_009"
  /\ nvOutput' = fixNvidiaMessageFormat(nvInput)
  /\ UNCHANGED <<nvidiaIdle, nvInput>>

\* a call of part_012's function
FixMessagesPlain ==
  /\ scenario = "nvidia"
  /\ nvVariant = "none"
  /\ nvVariant' = "part_012"
  /\ nvOutput' = fixNvidiaMessageFormatPlain(nvInput)
  /\ UNCHANGED <<nvidiaIdle, nvInput>>

InitNvidiaVars ==
  /\ nvInput = [form |-> "array", messages |-> <<>>]
  /\ nvVariant = "none"
  /\ nvOutput = <<>>

\* ------------------------------------------------------------- the arXiv tool
\* ArxivTool.execute of the research server (part_000) and ArxivTool.search of the
\* /api/research/arxiv endpoint (arxiv.post.ts), called with one keyword.  Scenario
\* "tool".  A paper of the feed is a record of its submission day and of the number
\* of matches of the keyword in its title and in its summary.

MaxFeed == 2            \* papers in a feed whose papers differ

maxResultsDefault == 10 \* args.max_results || 10
maxResultsCap == 50     \* Math.min(..., 50)

\* Math.min(a, b)
MathMin(a, b) == IF a <= b THEN a ELSE b

PublishedDays == {1, 2, 3}
MatchCounts == {0, 1}
NumericArgs == {-1, 0, 1, 2, 50, 51}
SortArgs == {"relevance", "date"}

\* the arguments: max_results and sort_by are optional properties
ToolArgs ==
  {[max_results |-> m, sort_by |-> s] : m \in NumericArgs, s \in SortArgs}
    \cup {[max_results |-> m] : m \in NumericArgs}
    \cup {[sort_by |-> s] : s \in SortArgs}
    \cup {<<>>}

Papers == [published : PublishedDays, titleMatches : MatchCounts, summaryMatches : MatchCounts]

\* newest first
DateDescending(ps) ==
  \A i \in 1..Len(ps) : \A j \in i..Len(ps) : ps[i].published >= ps[j].published

\* a full page of n papers of the same day without a match
FullPage(n) == [i \in 1..n |-> [published |-> 1, titleMatches |-> 0, summaryMatches |-> 0]]

\* The answers of the arXiv API to a request of count entries sorted by sortBy: an
\* error status (always for a negative count), or a feed of at most count entries,
\* newest first when sortBy is submittedDate.
ApiReplies(count, sortBy) ==
  {[ok |-> FALSE, entries |-> <<>>]}
    \cup (IF count < 0 THEN {}
          ELSE {[ok |-> TRUE, entries |-> f] :
                  f \in {g \in UNION {[1..n -> Papers] : n \in 0..MathMin(MaxFeed, count)} :
                           sortBy = "submittedDate" => DateDescending(g)}}
                 \cup (IF count > MaxFeed
                       THEN {[ok |-> TRUE, entries |-> FullPage(count)]} ELSE {}))

\* execute: the params object
ExecuteParams(args) ==
  [max_results |->
     MathMin(IF "max_results" \in DOMAIN args /\ args.max_results # 0
             THEN args.max_results ELSE maxResultsDefault, maxResultsCap),
   sort_by |-> IF "sort_by" \in DOMAIN args THEN args.sort_by ELSE "relevance"]

\* search: SearchSchema accepts max_results from 1 to 50
SchemaAccepts(args) ==
  "max_results" \in DOMAIN args => args.max_results >= 1 /\ args.max_results <= maxResultsCap

\* search: SearchSchema.parse(args), the defaults filled in
SearchParams(args) ==
  [max_results |-> IF "max_results" \in DOMAIN args THEN args.max_results
                   ELSE maxResultsDefault,
   sort_by |-> IF "sort_by" \in DOMAIN args THEN args.sort_by ELSE "relevance"]

\* buildRequestUrl: the max_results and sortBy parameters
RequestCount(params) == params.max_results * 2
RequestSortBy(params) == IF params.sort_by = "date" THEN "submittedDate" ELSE "relevance"

\* enhanceAndScore: the score of a paper for the one keyword
relevance_score(paper) == paper.titleMatches * 3 + paper.summaryMatches * 1

\* enhanceAndScore: the sort by descending relevance_score.  Array.prototype.sort is
\* stable, so the result is, score by score from the highest, the papers of that
\* score in the order they had.
RECURSIVE SortByScore(_, _)
SortByScore(papers, scores) ==
  IF scores = {} THEN <<>>
  ELSE LET top == CHOOSE s \in scores : \A o \in scores : o <= s
       IN SelectSeq(papers, LAMBDA paper : relevance_score(paper) = top)
            \o SortByScore(papers, scores \ {top})
enhanceAndScore(papers) ==
  SortByScore(papers, {relevance_score(papers[i]) : i \in 1..Len(papers)})

\* scoredPapers.slice(0, n)
SliceTo(s, n) == SubSeq(s, 1, IF n < 0 THEN Len(s) + n ELSE MathMin(n, Len(s)))

\* the papers of the result
FinalPapers(reply, params) == SliceTo(enhanceAndScore(reply.entries), params.max_results)

toolIdle == <<scenario, mcpIdle, arxivVars, callsVars, streamVars, resultVars, nvidiaVars,
             researchVars, endpointVars>>

\* ArxivTool.execute(args) of the research server
Execute ==
  /\ scenario = "tool"
  /\ tVariant = "none"
  /\ LET params == ExecuteParams(tArgs)
     IN \E reply \in ApiReplies(RequestCount(params), RequestSortBy(params)) :
          /\ tReply' = reply
          /\ tResult' = IF reply.ok
                        THEN [success |-> TRUE, papers |-> FinalPapers(reply, params),
                              total_results |-> Len(FinalPapers(reply, params))]
                        ELSE [success |-> FALSE]
  /\ tVariant' = "execute"
  /\ UNCHANGED <<toolIdle, tArgs>>

\* ArxivTool.search(args) of the endpoint
Search ==
  /\ scenario = "tool"
  /\ tVariant = "none"
  /\ IF ~SchemaAccepts(tArgs)
     THEN /\ tResult' = [thrown |-> TRUE]
          /\ UNCHANGED tReply
     ELSE LET params == SearchParams(tArgs)
          IN \E reply \in ApiReplies(RequestCount(params), RequestSortBy(params)) :
               /\ tReply' = reply
               /\ tResult' = IF reply.ok
                             THEN [papers |-> FinalPapers(reply, params),
                                   total_results |-> Len(FinalPapers(reply, params))]
                             ELSE [thrown |-> TRUE]
  /\ tVariant' = "search"
  /\ UNCHANGED <<toolIdle, tArgs>>

InitToolVars ==
  /\ tArgs = <<>>
  /\ tVariant = "none"
  /\ tReply = [ok |-> FALSE, entries |-> <<>>]
  /\ tResult = <<>>

\* ------------------------------------------------------------------
\* The chat handler's tool calls (chat/index.post.ts, non-streaming branch):
\* response.tool_calls is mapped to one promise per call, each of which catches
\* what its tool throws, and Promise.all collects their values.
MaxToolCalls == 3
ToolCallIdsGiven == {"", "call_a", "call_b"}
ToolNames == {"arxiv_query", "unknown_tool"}
ToolCall == [id : ToolCallIdsGiven, name : ToolNames]
ToolCallLists == UNION {[1..k -> ToolCall] : k \in 0..MaxToolCalls}

\* generateToolCallId: the tool name, a timestamp and a random suffix
generateToolCallId(toolName) == {toolName \o "_1700000000000_" \o r : r \in {"k3x9a", "p07qz"}}

\* toolCall.id || generateToolCallId(toolCall.name): the empty string is falsy
toolCallIdGenerated(toolCall) == generateToolCallId(toolCall.name)
toolCallId(toolCall) ==
  IF toolCall.id # "" THEN {toolCall.id} ELSE generateToolCallId(toolCall.name)

\* mcpPool.executeTool: a name that is not in toolsMap throws; a tool that is in it
\* is invoked, and the invocation returns or throws
ExecuteOutcomes(toolCall) ==
  IF toolCall.name = "arxiv_query" THEN {"returned", "threw"} ELSE {"threw"}

\* convertResultToString of what the tool returned, and the text of the catch block
ResultContent(toolCall, outcome) ==
  IF outcome = "returned" THEN "result of " \o toolCall.name
  ELSE "Tool execution failed: " \o toolCall.name

NoValue == [tool_call_id |-> "", content |-> ""]
PendingPromise == [state |-> "pending", outcome |-> "none", value |-> NoValue]

toolCallsIdle == <<scenario, mcpIdle, arxivVars, callsVars, streamVars, resultVars, nvidiaVars,
                  toolVars, researchVars, agentVars, selectVars>>

\* response.tool_calls.map(async ...): every promise is created, pending
MapToolCalls ==
  /\ scenario = "toolcalls"
  /\ ~tcDone
  /\ tcPromises = <<>>
  /\ Len(tcCalls) > 0
  /\ tcPromises' = [i \in 1..Len(tcCalls) |-> PendingPromise]
  /\ UNCHANGED <<tcCalls, tcResults, tcDone, toolCallsIdle>>

\* the async function of call i settles: with the tool's result, or through its
\* catch block; either way the promise is fulfilled
ToolPromiseSettles(i) ==
  /\ scenario = "toolcalls"
  /\ i \in 1..Len(tcPromises)
  /\ tcPromises[i].state = "pending"
  /\ \E outcome \in ExecuteOutcomes(tcCalls[i]) : \E id \in toolCallId(tcCalls[i]) :
       tcPromises' = [tcPromises EXCEPT ![i] =
                        [state |-> "fulfilled", outcome |-> outcome,
                         value |-> [tool_call_id |-> id,
                                    content |-> ResultContent(tcCalls[i], outcome)]]]
  /\ UNCHANGED <<tcCalls, tcResults, tcDone, toolCallsIdle>>

\* await Promise.all(toolPromises): the values in the order of the promises
PromiseAll ==
  /\ scenario = "toolcalls"
  /\ ~tcDone
  /\ tcPromises # <<>>
  /\ \A i \in 1..Len(tcPromises) : tcPromises[i].state = "fulfilled"
  /\ tcResults' = [i \in 1..Len(tcPromises) |-> tcPromises[i].value]
  /\ tcDone' = TRUE
  /\ UNCHANGED <<tcCalls, tcPromises, toolCallsIdle>>

\* response.tool_calls is empty: the branch is not entered
NoToolCalls ==
  /\ scenario = "toolcalls"
  /\ ~tcDone
  /\ Len(tcCalls) = 0
  /\ tcDone' = TRUE
  /\ UNCHANGED <<tcCalls, tcPromises, tcResults, toolCallsIdle>>

InitToolCallVars ==
  /\ tcCalls = <<>>
  /\ tcPromises = <<>>
  /\ tcResults = <<>>
  /\ tcDone = FALSE

\* ------------------------------------------------------------------
\* The research agent endpoint (research/agent.post.ts) and the debug-mcp endpoint
\* (research/debug-mcp.get.ts): each request constructs a McpService, works on it
\* in a try block, and closes it in the finally clause.
MaxRequests == 2
Requests == 1..MaxRequests
EndpointKinds == {"agent", "debug"}

\* where a request goes when its try block is left, by return or by throw: the
\* finally clause
LeaveTryClosingOnReturn(thrown) == IF thrown THEN "caught" ELSE "finally"
LeaveTry(thrown) == "finally"

agentIdle == <<scenario, mcpIdle, arxivVars, callsVars, streamVars, resultVars, nvidiaVars,
              toolVars, researchVars, toolCallVars, selectVars>>

\* agent: the body is read and the extraction LLM is invoked; either may throw
\* before any McpService exists
AgentPrepare(r) ==
  /\ scenario = "agent"
  /\ gKind[r] = "agent"
  /\ gPc[r] = "start"
  /\ \E thrown \in BOOLEAN :
       /\ gPc' = [gPc EXCEPT ![r] = IF thrown THEN "caught" ELSE "prepared"]
       /\ gThrown' = [gThrown EXCEPT ![r] = thrown]
  /\ UNCHANGED <<gKind, gCreated, gCloseCalls, agentIdle>>

\* const mcpService = new McpService(), and the listTools() call of the try block
CreateService(r) ==
  /\ scenario = "agent"
  /\ \/ gKind[r] = "agent" /\ gPc[r] = "prepared"
     \/ gKind[r] = "debug" /\ gPc[r] = "start"
  /\ gCreated' = [gCreated EXCEPT ![r] = @ + 1]
  /\ gPc' = [gPc EXCEPT ![r] = "listing"]
  /\ UNCHANGED <<gKind, gCloseCalls, gThrown, agentIdle>>

\* listTools() resolved (it never rejects). debug: getStatus() and return. agent:
\* throw when arxiv_query is not in the list, else invoke it.
ListToolsDone(r) ==
  /\ scenario = "agent"
  /\ gPc[r] = "listing"
  /\ \E hasArxiv \in BOOLEAN :
       IF gKind[r] = "debug"
       THEN /\ gPc' = [gPc EXCEPT ![r] = LeaveTry(FALSE)]
            /\ UNCHANGED gThrown
       ELSE IF hasArxiv
       THEN /\ gPc' = [gPc EXCEPT ![r] = "invoking"]
            /\ UNCHANGED gThrown
       ELSE /\ gPc' = [gPc EXCEPT ![r] = LeaveTry(TRUE)]
            /\ gThrown' = [gThrown EXCEPT ![r] = TRUE]
  /\ UNCHANGED <<gKind, gCreated, gCloseCalls, agentIdle>>

\* arxivTool.invoke(searchParams) settled: the summary LLM call, or a throw
ToolInvokeDone(r) ==
  /\ scenario = "agent"
  /\ gPc[r] = "invoking"
  /\ \E thrown \in BOOLEAN :
       /\ gPc' = [gPc EXCEPT ![r] = IF thrown THEN LeaveTry(TRUE) ELSE "summarising"]
       /\ gThrown' = [gThrown EXCEPT ![r] = thrown]
  /\ UNCHANGED <<gKind, gCreated, gCloseCalls, agentIdle>>

\* llm.invoke of the summary prompt settled: return, or a throw
SummaryDone(r) ==
  /\ scenario = "agent"
  /\ gPc[r] = "summarising"
  /\ \E thrown \in BOOLEAN :
       /\ gPc' = [gPc EXCEPT ![r] = LeaveTry(thrown)]
       /\ gThrown' = [gThrown EXCEPT ![r] = thrown]
  /\ UNCHANGED <<gKind, gCreated, gCloseCalls, agentIdle>>

\* finally { await mcpService.close() }: close() is called
FinallyClose(r) ==
  /\ scenario = "agent"
  /\ gPc[r] = "finally"
  /\ gCloseCalls' = [gCloseCalls EXCEPT ![r] = @ + 1]
  /\ gPc' = [gPc EXCEPT ![r] = "closing"]
  /\ UNCHANGED <<gKind, gCreated, gThrown, agentIdle>>

\* close() resolved (it never rejects): the return value is delivered, or the throw
\* reaches the outer catch
CloseDone(r) ==
  /\ scenario = "agent"
  /\ gPc[r] = "closing"
  /\ gPc' = [gPc EXCEPT ![r] = IF gThrown[r] THEN "caught" ELSE "returned"]
  /\ UNCHANGED <<gKind, gCreated, gCloseCalls, gThrown, agentIdle>>

\* the outer catch returns { success: false, ... }
OuterCatch(r) ==
  /\ scenario = "agent"
  /\ gPc[r] = "caught"
  /\ gPc' = [gPc EXCEPT ![r] = "returned"]
  /\ UNCHANGED <<gKind, gCreated, gCloseCalls, gThrown, agentIdle>>

InitAgentVars ==
  /\ gKind = [r \in Requests |-> "agent"]
  /\ gPc = [r \in Requests |-> "start"]
  /\ gCreated = [r \in Requests |-> 0]
  /\ gCloseCalls = [r \in Requests |-> 0]
  /\ gThrown = [r \in Requests |-> FALSE]

\* ------------------------------------------------------------------
\* ResearchMcpService.selectToolsForQuery (server/utils/research-mcp.ts). A query
\* is modelled by the set of words it holds; config.tools by the set of its
\* elements.
QueryWords == {"paper", "STUDY", "news", "hello"}
Queries == SUBSET QueryWords
ResearchToolNames == {"arxiv_query", "web_scraper", "hybrid_search", "brave_search"}
ConfigTools == SUBSET ResearchToolNames
academicKeywords == {"paper", "research", "study", "arxiv", "academic", "publication", "journal"}
webKeywords == {"news", "current", "latest", "today", "recent", "website", "company"}

\* query.toLowerCase()
toLowerCase(query) == {IF w = "STUDY" THEN "study" ELSE w : w \in query}

\* keywords.some(keyword => queryLower.includes(keyword))
SomeIncluded(keywords, queryLower) == \E keyword \in keywords : keyword \in queryLower

selectToolsForQuery(query, configTools) ==
  LET queryLower == toLowerCase(query)
      t1 == IF SomeIncluded(academicKeywords, queryLower) THEN <<"arxiv_query">> ELSE <<>>
      t2 == IF SomeIncluded(webKeywords, queryLower) THEN Append(t1, "brave_search") ELSE t1
      t3 == IF "hybrid_search" \in configTools THEN Append(t2, "hybrid_search") ELSE t2
  IN  IF Len(t3) = 0 THEN <<"brave_search">> ELSE t3

selectIdle == <<scenario, mcpIdle, arxivVars, callsVars, streamVars, resultVars, nvidiaVars,
               toolVars, researchVars, toolCallVars, agentVars>>

SelectTools ==
  /\ scenario = "select"
  /\ ~sCalled
  /\ sTools' = selectToolsForQuery(sQuery, sConfigTools)
  /\ sCalled' = TRUE
  /\ UNCHANGED <<sQuery, sConfigTools, selectIdle>>

InitSelectVars ==
  /\ sQuery = {}
  /\ sConfigTools = ResearchToolNames
  /\ sCalled = FALSE
  /\ sTools = <<>>

InitEndpointVars == InitToolCallVars /\ InitAgentVars /\ InitSelectVars

\* ---------------------------------------------------------- specification
\* "pool": the server after McpConnectionPool.getInstance(); "service": one
\* McpService after its construction, used through its public methods.
InitMcp ==
  /\ now = StartTime
  /\ svcExists = [s \in Services |-> scenario = "service" /\ s = TheSvc]
  /\ mcpClient = [s \in Services |-> "null"]
  /\ toolsCache = [s \in Services |-> NoCache]
  /\ svcIsInitialized = [s \in Services |-> FALSE]
  /\ initializationPromise = [s \in Services |-> "null"]
  /\ loadPc = [s \in Services |-> "none"]
  /\ loadValue = [s \in Services |-> EmptyList]
  /\ loads = [s \in Services |-> 0]
  /\ lastLoadDone = [s \in Services |-> -1]
  /\ lastLoadOk = [s \in Services |-> FALSE]
  /\ clearedSince = [s \in Services |-> FALSE]
  /\ ltWaiting = 0
  /\ ltClosing = 0
  /\ refreshPc = "idle"
  /\ refreshGot = "none"
  /\ lastHanded = NoResult
  /\ poolService = 0
  /\ poolTools = EmptyList
  /\ poolToolsMap = EmptyList
  /\ poolIsInitialized = FALSE
  /\ initPromise = 0
  /\ lastHealthCheck = 0
  /\ runPc = [r \in Runs |-> "none"]
  /\ runOld = [r \in Runs |-> 0]
  /\ cleanupPc = [k \in Cleanups |-> "none"]
  /\ cleanupSvc = [k \in Cleanups |-> 0]
  /\ closeCalled = [s \in Services |-> FALSE]
  /\ cleanups = 0
  /\ hWaiting = [r \in Runs |-> 0]
  /\ lastGot = NoResult
  /\ lastMap = NoResult

Init ==
  /\ scenario \in {"pool", "service"}
  /\ InitMcp
  /\ InitArxivCall
  /\ InitCallsVars
  /\ InitStreamVars
  /\ InitResultVars
  /\ InitNvidiaVars
  /\ InitToolVars
  /\ InitResearchVars
  /\ InitEndpointVars
  /\ isServerAvailable = FALSE

Next ==
  \/ \E s \in Services : LoadCloseDone(s)
  \/ \E s \in Services : LoadConnectDone(s)
  \/ \E s \in Services : LoadGetToolsDone(s)
  \/ \E s \in Services : LoadSettle(s)
  \/ SvcListTools
  \/ SvcClearCache
  \/ SvcRefreshTools
  \/ SvcCloseBegin
  \/ SvcCloseEnd
  \/ ChatRequest
  \/ CleanupBegin
  \/ \E k \in Cleanups : CleanupEnd(k)
  \/ Tick

Spec == Init /\ [][Next]_vars

\* The "clean up existing connection" wait of _doInitialize is never entered:
\* initPromise is cleared only by cleanup(), which clears mcpService with it.
NoRunClosesOld ==
  /\ \A r \in Runs : runPc[r] # "closingOld"
  /\ (initPromise = 0 => poolService = 0)

\* Timers fire, microtasks run, and the client's close() and getTools() calls come
\* back; nothing makes a tool server complete its connection handshake.
FairSpec ==
  /\ Spec
  /\ WF_vars(Tick)
  /\ \A s \in Services :
       /\ WF_vars(LoadSettle(s))
       /\ WF_vars(LoadCloseDone(s))
       /\ WF_vars(LoadGetToolsDone(s))

\* An MCPService right after its constructor; checkServerAvailability() found the
\* server file or did not.
InitArxiv ==
  /\ scenario = "arxiv"
  /\ InitMcp
  /\ InitArxivCall
  /\ InitCallsVars
  /\ InitStreamVars
  /\ InitResultVars
  /\ InitNvidiaVars
  /\ InitToolVars
  /\ InitResearchVars
  /\ InitEndpointVars
  /\ isServerAvailable \in BOOLEAN

NextArxiv ==
  \/ SearchArxiv
  \/ ChildStderr
  \/ ChildStdout
  \/ ChildExit
  \/ PollReady
  \/ WriteDone
  \/ PollResponse
  \/ FallbackSettle

SpecArxiv == InitArxiv /\ [][NextArxiv]_vars

\* Timers fire, stdin.write calls its callback, and the fallback fetch settles or is
\* aborted; nothing is assumed of the child process.
FairArxiv ==
  /\ SpecArxiv
  /\ WF_vars(PollReady)
  /\ WF_vars(PollResponse)
  /\ WF_vars(WriteDone)
  /\ WF_vars(FallbackSettle)

\* An MCPService right after its constructor, serving calls that overlap.
InitCalls ==
  /\ scenario = "calls"
  /\ InitMcp
  /\ InitArxivCall
  /\ InitCallsVars
  /\ InitStreamVars
  /\ InitResultVars
  /\ InitNvidiaVars
  /\ InitToolVars
  /\ InitResearchVars
  /\ InitEndpointVars
  /\ isServerAvailable \in BOOLEAN

NextCalls ==
  \/ \E c \in Calls : CallSearchArxiv(c)
  \/ \E p \in Procs : ProcReady(p)
  \/ \E p \in Procs : ProcAnswer(p)
  \/ \E p \in Procs : ProcExit(p)
  \/ \E c \in Calls : CallPollReady(c)
  \/ \E c \in Calls : CallWriteDone(c)
  \/ \E c \in Calls : CallPollResponse(c)
  \/ \E c \in Calls : CallFallbackSettle(c)

SpecCalls == InitCalls /\ [][NextCalls]_vars

\* An MCPService right after its constructor, serving one call after the other and
\* close() calls.
InitLifetime ==
  /\ scenario = "lifetime"
  /\ InitMcp
  /\ InitArxivCall
  /\ InitCallsVars
  /\ InitStreamVars
  /\ InitResultVars
  /\ InitNvidiaVars
  /\ InitToolVars
  /\ InitResearchVars
  /\ InitEndpointVars
  /\ isServerAvailable \in BOOLEAN

NextLifetime ==
  \/ NextSearchArxiv
  \/ \E p \in Procs : ProcReady(p)
  \/ \E p \in Procs : ProcAnswer(p)
  \/ \E p \in Procs : ProcExit(p)
  \/ \E c \in Calls : CallPollReady(c)
  \/ \E c \in Calls : CallWriteDone(c)
  \/ \E c \in Calls : CallPollResponse(c)
  \/ \E c \in Calls : CallFallbackSettle(c)
  \/ \E p \in Procs : GraceTimer(p)
  \/ CloseBegin
  \/ CloseEnd

SpecLifetime == InitLifetime /\ [][NextLifetime]_vars

\* An MCPService serving one call, the child's output taken as text.
InitStream ==
  /\ scenario = "stream"
  /\ InitMcp
  /\ InitArxivCall
  /\ InitCallsVars
  /\ InitStreamVars
  /\ InitResultVars
  /\ InitNvidiaVars
  /\ InitToolVars
  /\ InitResearchVars
  /\ InitEndpointVars
  /\ isServerAvailable = TRUE

NextStream ==
  \/ StreamSearchArxiv
  \/ \E p \in Procs : ProcReady(p)
  \/ \E p \in Procs : ProcStderrText(p)
  \/ \E p \in Procs : ProcEmit(p)
  \/ \E p \in Procs : ProcExit(p)
  \/ \E c \in Calls : CallPollReady(c)
  \/ \E c \in Calls : CallWriteDone(c)
  \/ \E c \in Calls : CallPollResponse(c)
  \/ \E c \in Calls : CallFallbackSettle(c)

SpecStream == InitStream /\ [][NextStream]_vars

\* An MCPService returning results.
InitResults ==
  /\ scenario = "results"
  /\ InitMcp
  /\ InitArxivCall
  /\ InitCallsVars
  /\ InitStreamVars
  /\ InitResultVars
  /\ InitNvidiaVars
  /\ InitToolVars
  /\ InitResearchVars
  /\ InitEndpointVars
  /\ isServerAvailable \in BOOLEAN

NextResults ==
  \/ ProtocolReturn
  \/ ProtocolCatch
  \/ FallbackReturn
  \/ FallbackCatch

SpecResults == InitResults /\ [][NextResults]_vars

\* fixNvidiaMessageFormat called with any argument of NvidiaInputs.
InitNvidia ==
  /\ scenario = "nvidia"
  /\ InitMcp
  /\ InitArxivCall
  /\ InitCallsVars
  /\ InitStreamVars
  /\ InitResultVars
  /\ InitToolVars
  /\ InitResearchVars
  /\ InitEndpointVars
  /\ nvInput \in NvidiaInputs
  /\ nvVariant = "none"
  /\ nvOutput = <<>>
  /\ isServerAvailable = FALSE

NextNvidia ==
  \/ FixMessages
  \/ FixMessagesPlain

SpecNvidia == InitNvidia /\ [][NextNvidia]_vars

\* The arXiv tool called once with any arguments of ToolArgs.
InitTool ==
  /\ scenario = "tool"
  /\ InitMcp
  /\ InitArxivCall
  /\ InitCallsVars
  /\ InitStreamVars
  /\ InitResultVars
  /\ InitNvidiaVars
  /\ InitResearchVars
  /\ InitEndpointVars
  /\ tArgs \in ToolArgs
  /\ tVariant = "none"
  /\ tReply = [ok |-> FALSE, entries |-> <<>>]
  /\ tResult = <<>>
  /\ isServerAvailable = FALSE

NextTool ==
  \/ Execute
  \/ Search

SpecTool == InitTool /\ [][NextTool]_vars

\* handleResearchQuery: a new MCPService, one searchArxiv call, and the 30 s timer.
InitResearch ==
  /\ scenario = "research"
  /\ InitMcp
  /\ InitArxivCall
  /\ InitCallsVars
  /\ InitStreamVars
  /\ InitResultVars
  /\ InitNvidiaVars
  /\ InitToolVars
  /\ InitResearchVars
  /\ InitEndpointVars
  /\ isServerAvailable \in BOOLEAN

NextResearch ==
  \/ SearchArxiv
  \/ ChildStderr
  \/ ChildStdout
  \/ PollReady
  \/ WriteDone
  \/ PollResponse
  \/ FallbackSettle
  \/ HandlerDeadline

SpecResearch == InitResearch /\ [][NextResearch]_vars

InitToolCalls ==
  /\ scenario = "toolcalls"
  /\ InitMcp
  /\ InitArxivCall
  /\ InitCallsVars
  /\ InitStreamVars
  /\ InitResultVars
  /\ InitNvidiaVars
  /\ InitToolVars
  /\ InitResearchVars
  /\ InitAgentVars
  /\ InitSelectVars
  /\ tcCalls \in ToolCallLists
  /\ tcPromises = <<>>
  /\ tcResults = <<>>
  /\ tcDone = FALSE
  /\ isServerAvailable = FALSE

NextToolCalls ==
  \/ MapToolCalls
  \/ \E i \in 1..MaxToolCalls : ToolPromiseSettles(i)
  \/ PromiseAll
  \/ NoToolCalls

SpecToolCalls == InitToolCalls /\ [][NextToolCalls]_vars

InitAgent ==
  /\ scenario = "agent"
  /\ InitMcp
  /\ InitArxivCall
  /\ InitCallsVars
  /\ InitStreamVars
  /\ InitResultVars
  /\ InitNvidiaVars
  /\ InitToolVars
  /\ InitResearchVars
  /\ InitToolCallVars
  /\ InitSelectVars
  /\ gKind \in [Requests -> EndpointKinds]
  /\ gPc = [r \in Requests |-> "start"]
  /\ gCreated = [r \in Requests |-> 0]
  /\ gCloseCalls = [r \in Requests |-> 0]
  /\ gThrown = [r \in Requests |-> FALSE]
  /\ isServerAvailable = FALSE

NextAgent ==
  \E r \in Requests :
    \/ AgentPrepare(r)
    \/ CreateService(r)
    \/ ListToolsDone(r)
    \/ ToolInvokeDone(r)
    \/ SummaryDone(r)
    \/ FinallyClose(r)
    \/ CloseDone(r)
    \/ OuterCatch(r)

SpecAgent == InitAgent /\ [][NextAgent]_vars

InitSelect ==
  /\ scenario = "select"
  /\ InitMcp
  /\ InitArxivCall
  /\ InitCallsVars
  /\ InitStreamVars
  /\ InitResultVars
  /\ InitNvidiaVars
  /\ InitToolVars
  /\ InitResearchVars
  /\ InitToolCallVars
  /\ InitAgentVars
  /\ sQuery \in Queries
  /\ sConfigTools \in ConfigTools
  /\ sCalled = FALSE
  /\ sTools = <<>>
  /\ isServerAvailable = FALSE

NextSelect == SelectTools

SpecSelect == InitSelect /\ [][NextSelect]_vars

\* ------------------------------------------------------------------ claims
Constructed == Cardinality({s \in Services : svcExists[s]})

\* C1: however many initialize() calls (chat requests) are started on a cold pool,
\* one McpService is constructed and one initializeTools run is performed, and
\* every waiting caller awaits that one run; likewise listTools() calls started on
\* a cold McpService start one initializeTools run, which every caller awaits.
C1_SingleInitialization ==
  /\ (scenario = "pool" /\ cleanups = 0) =>
       /\ Constructed <= 1
       /\ \A s \in Services : loads[s] <= (IF s = 1 THEN 1 ELSE 0)
       /\ \A r \in Runs : hWaiting[r] > 0 => (r = 1 /\ runPc[1] = "listing")
       /\ (HandlersWaiting > 0 \/ poolIsInitialized) => (Constructed = 1 /\ loads[1] = 1)
  /\ scenario = "service" =>
       /\ (lastLoadDone[TheSvc] = -1 => loads[TheSvc] <= 1)
       /\ (ltWaiting > 0 => (InitializationInProgress(TheSvc) /\ loads[TheSvc] >= 1))

\* C1 witness: two chat requests wait on a cold pool for the one run in flight.
C1_Witness ==
  /\ scenario = "pool"
  /\ cleanups = 0
  /\ hWaiting[1] >= 2
  /\ Constructed = 1
  /\ loads[1] = 1

\* C2: a listTools() call made less than cacheDuration after a tool load settled
\* starts no load; one made once cacheDuration has elapsed starts exactly one load,
\* and calls made while that load is in flight start none (the cache not having been
\* cleared by clearCache() / refreshTools() since the load settled).
C2_CacheWindow ==
  [][ (/\ scenario = "service"
       /\ lastLoadDone[TheSvc] >= 0
       /\ ~clearedSince[TheSvc]
       /\ SvcListTools)
      => IF now - lastLoadDone[TheSvc] < cacheDuration \/ InitializationInProgress(TheSvc)
         THEN loads' = loads
         ELSE loads'[TheSvc] = loads[TheSvc] + 1 ]_vars

\* C2 witness: a second load is in flight, started by a listTools() call made once
\* cacheDuration had elapsed since the first load settled.
C2_Witness ==
  /\ scenario = "service"
  /\ loads[TheSvc] = 2
  /\ lastLoadDone[TheSvc] >= 0
  /\ ~clearedSince[TheSvc]
  /\ InitializationInProgress(TheSvc)
  /\ now - lastLoadDone[TheSvc] >= cacheDuration

Fresh(res) == (res.ok /\ res.tools.loadedAt >= 0) => res.at - res.tools.loadedAt < cacheDuration

\* C3: a tool list handed to a caller by listTools(), getTools() or getToolsMap()
\* was loaded from the tool servers less than cacheDuration earlier.
C3_NoStaleList == Fresh(lastHanded) /\ Fresh(lastGot) /\ Fresh(lastMap)

\* C6: a tool load that is in flight settles, also when the tool server never
\* completes its connection handshake.
C6_LoadSettles ==
  \A s \in Services : InitializationInProgress(s) ~> ~InitializationInProgress(s)

\* C4: searchArxiv never rejects; whenever it has resolved, success is a boolean, and
\* a result with success false carries a non-empty error string and papers = [].
IsNonEmptyString(e) == e \notin {"", Absent}
C4_SearchNeverRejects ==
  /\ aSettled \in {"pending", "resolved"}
  /\ aSettled = "resolved" =>
       /\ aResult.success \in BOOLEAN
       /\ ~aResult.success => (IsNonEmptyString(aResult.error) /\ aResult.papers = "[]")

\* the server answered request 2 with an inner result {success:false} that has no
\* error text, and the call resolved with the default message
C4_Witness ==
  /\ aSettled = "resolved"
  /\ ~aResult.success
  /\ aResult.error = "No papers found"
  /\ \E i \in 1..Len(responses) : responses[i] = "call_fail_noerr"

\* C5: every searchArxiv call eventually resolves whatever the child does, and while
\* a wait is pending its elapsed time is within connectionTimeout (startup), 5 s
\* (initialize response) or requestTimeout (tools/call response).
WaitsBounded ==
  /\ aPc = "waitReady" => aElapsed <= connectionTimeout
  /\ aPc = "waitInit" => aElapsed <= initResponseTimeout
  /\ aPc = "waitCall" => aElapsed <= requestTimeout
C5_SearchResolves ==
  /\ []WaitsBounded
  /\ (aPc # "idle") ~> (aSettled = "resolved")

\* a child that never answered request 2 and never exited; the call resolved after
\* the response timeout
C5_Witness ==
  /\ aSettled = "resolved"
  /\ aThrown = ResponseTimeoutMsg("waitCall")
  /\ childAlive
  /\ responses = <<"init_ok">>

\* C7: with the server file missing and the direct API answering, searchArxiv
\* resolves to success:true through the fallback, spawns nothing, and marks the
\* result served_by "fallback".
C7_MissingServerFallback ==
  (aSettled = "resolved" /\ ~isServerAvailable /\ aFallbackOutcome = "ok") =>
    /\ aResult.success
    /\ aFallbackCalled
    /\ aSpawned = 0
    /\ aResult.servedBy = "fallback"

\* C8: a protocol attempt that failed because the channel was unavailable (spawn
\* threw, streams missing, process died during startup, startup timeout, response
\* timeout) ends in the result of fallbackArxivSearch.
ChannelUnavailable(msg) ==
  msg \in {SpawnThrowsMsg, NoStreamsMsg, StartupDiedMsg, StartupTimeoutMsg,
           ResponseTimeoutMsg("waitInit"), ResponseTimeoutMsg("waitCall")}
C8_UnavailableFallsBack ==
  (aSettled = "resolved" /\ ChannelUnavailable(aThrown)) =>
    /\ aFallbackCalled
    /\ aResult = fallbackArxivSearch(aFallbackOutcome)

\* C9: the fallback is called only when the server was unavailable or the attempt
\* ended in a startup or response timeout, and never once the server has answered
\* the tools/call request with an error envelope or an inner success:false.
ServerRejected(rs) ==
  \E i \in 1..Len(rs) : rs[i] \in {"call_err", "call_fail", "call_fail_noerr"}
C9_FallbackOnlyOnTimeout ==
  aFallbackCalled =>
    /\ \/ ~isServerAvailable
       \/ aThrown \in {"Server startup timeout", "Response timeout waiting for: id 1",
                       "Response timeout waiting for: id 2"}
    /\ ~(aCallSent /\ ServerRejected(responses))

\* the tools/call request got no response in time and the fallback answered
C9_Witness ==
  /\ aSettled = "resolved"
  /\ isServerAvailable
  /\ aCallSent
  /\ aThrown = "Response timeout waiting for: id 2"
  /\ aFallbackCalled
  /\ aFallbackOutcome = "ok"

\* C10: once the child has exited during a wait for a response, no later response
\* check leaves the wait pending, and the wait does not run into its timeout.
C10_ExitEndsWait ==
  /\ ~(aPc \in ResponseWaits /\ aPolledSinceExit)
  /\ aExitWhileWaiting =>
       aThrown \notin {ResponseTimeoutMsg("waitInit"), ResponseTimeoutMsg("waitCall")}

\* C12: a request that got no response within its timeout fails alone: the process
\* it was sent to, if still running, is not sent a termination signal because of it.
C12_TimeoutSparesProcess ==
  (aThrown \in {ResponseTimeoutMsg("waitInit"), ResponseTimeoutMsg("waitCall")}
     /\ childAlive) => ~aSigterm

\* C13: a server whose initialize response is on stdout is treated as ready even
\* though the readiness marker never came on stderr: the startup wait does not end
\* in a startup timeout.
C13_ReadyFromEitherSignal ==
  (~IsReady(errorLogs) /\ HasResponse(responses, "waitInit")) =>
    aThrown # StartupTimeoutMsg

\* C14: a chat request that finds isHealthy() false while no initialization is in
\* flight makes initialize() start a new _doInitialize run.
InitializationPending == InitInFlight /\ runPc[initPromise] # "done"
C14_UnhealthyReinitializes ==
  [][ (ChatRequest /\ ~isHealthyValue(lastHealthCheck) /\ ~InitializationPending)
        => RunsStarted' = RunsStarted + 1 ]_vars

\* C15: the pool never has two McpService objects on which close() has not been
\* called.
Unclosed == {s \in Services : svcExists[s] /\ ~closeCalled[s]}
C15_OneLiveService == scenario = "pool" => Cardinality(Unclosed) <= 1

\* C11: a searchArxiv call whose request gets no response ends through the timeout
\* branch, and neither the step in which its wait times out nor the step in which it
\* returns changes anything of another call in progress (its position, its process,
\* its responses, its error, its result) or of that call's process; and every
\* response a call holds was written by the process the call itself spawned.
CallState(d) == <<cPc[d], cProc[d], cResponses[d], cThrown[d], cResult[d]>>
ProcessState(p) ==
  <<pState[p], pReady[p], pKilled[p], pTerm[p], pSigkill[p], p \in activeProcesses>>
ResponseTimeouts == {ResponseTimeoutMsg("waitInit"), ResponseTimeoutMsg("waitCall")}
TimesOut(c) == cThrown[c] = "" /\ cThrown'[c] \in ResponseTimeouts
ReturnsTimedOut(c) ==
  cThrown[c] \in ResponseTimeouts /\ cPc[c] = "fallback" /\ cPc'[c] = "done"
OwnResponsesOnly ==
  \A c \in Calls : \A i \in 1..Len(cResponses[c]) : cResponses[c][i].from = cProc[c]
TimeoutLeavesOthers ==
  \A c, d \in Calls :
    (c # d /\ (TimesOut(c) \/ ReturnsTimedOut(c))) =>
      /\ CallState(d)' = CallState(d)
      /\ cProc[d] # 0 => ProcessState(cProc[d])' = ProcessState(cProc[d])
      /\ TimesOut(c) => cPc'[c] = "fallback"
      /\ ReturnsTimedOut(c) => cResult'[c] \in {fallbackArxivSearch(o) : o \in CallFetchOutcomes}
C11_TimeoutIsolated == []OwnResponsesOnly /\ [][TimeoutLeavesOthers]_vars
C11_Witness ==
  \E c, d \in Calls :
    /\ c # d
    /\ cPc[c] = "fallback"
    /\ cThrown[c] = ResponseTimeoutMsg("waitCall")
    /\ cPc[d] = "waitCall"
    /\ \E i \in 1..Len(cResponses[d]) : cResponses[d][i] = Chunk(cProc[d], "call_ok")

\* C16: when a searchArxiv call has returned, the process it spawned (if any) was
\* sent SIGTERM or is no longer running, and is not in activeProcesses; and whenever
\* no call is in progress activeProcesses is empty.
Released(p) == (pTerm[p] >= 1 \/ pState[p] # "running") /\ p \notin activeProcesses
C16_ProcessReleased ==
  /\ \A c \in Calls : (cPc[c] = "done" /\ cProc[c] # 0) => Released(cProc[c])
  /\ (\A c \in Calls : cPc[c] \in {"idle", "done"}) => activeProcesses = {}
C16_Witness ==
  \E c \in Calls :
    /\ cPc[c] = "done"
    /\ cResult[c] = SuccessResult
    /\ cThrown[c] = ""
    /\ cProc[c] = MaxProcs
    /\ pTerm[cProc[c]] = 1
    /\ pState[cProc[c]] = "running"
    /\ pCleanups[cProc[c]] = 1

\* C17: a process that is still running when the 2 s timer set by cleanupProcess
\* fires has been sent SIGKILL when the timer callback returns.
C17_GraceThenSigkill == \A p \in Procs : pGraceRanAlive[p] => pSigkill[p]

\* C18: a call of cleanupProcess on a process that cleanupProcess already handled
\* once sends no SIGTERM, and the process is absent from activeProcesses before it
\* and after it.
CleanedAgain(p) == pCleanups[p] >= 1 /\ pCleanups'[p] > pCleanups[p]
SecondCleanupIsNoOp ==
  \A p \in Procs :
    CleanedAgain(p) =>
      /\ pTerm'[p] = pTerm[p]
      /\ p \notin activeProcesses
      /\ p \notin activeProcesses'
C18_CleanupIdempotent == [][SecondCleanupIsNoOp]_vars
C18_Witness ==
  \E p \in Procs : pCleanups[p] = 2 /\ pTerm[p] = 1 /\ pState[p] = "running"

\* C19: every result returned has the properties of its kind, the same on the
\* protocol path and on the fallback path: success, papers, total_results,
\* execution_time with total_results the number of papers returned when success is
\* true; success, error, papers (empty), execution_time when it is false.
SuccessFields == {"success", "papers", "total_results", "execution_time"}
FailureFields == {"success", "error", "papers", "execution_time"}
SameFields ==
  rPath # "none" =>
    IF rResult.success THEN DOMAIN rResult = SuccessFields
    ELSE DOMAIN rResult = FailureFields /\ rResult.papers = <<>>
C19_SameShape ==
  /\ SameFields
  /\ (rPath # "none" /\ rResult.success) => rResult.total_results = Len(rResult.papers)

\* C20: from an inner document with success true and a papers array searchArxiv
\* returns success true, those papers in that order and total_results their number;
\* from an inner document with success false and an error it returns success false
\* with that error.
C20_InnerDocumentSurfaced ==
  rPath = "protocol" =>
    /\ (rDocument.success /\ Has(rDocument, "papers")) =>
         /\ rResult.success
         /\ rResult.papers = rDocument.papers
         /\ rResult.total_results = Len(rDocument.papers)
    /\ (~rDocument.success /\ Has(rDocument, "error") /\ rDocument.error # "") =>
         /\ ~rResult.success
         /\ rResult.error = rDocument.error
C20_Witness ==
  /\ rPath = "protocol"
  /\ rDocument.success
  /\ Has(rDocument, "papers")
  /\ rDocument.papers = <<"2301.00002", "2301.00001">>
  /\ rResult.papers = <<"2301.00002", "2301.00001">>
  /\ rResult.total_results = 2

\* C26: the requests written to the process's stdin are, in order, a prefix of
\* <<1, 2>>: nothing is written before checkReady found the ready line, request 1 is
\* written once, request 2 only after a chunk holding "id":1 was found, and nothing
\* else is written.
IsPrefixOf(s, r) == Len(s) <= Len(r) /\ \A i \in 1..Len(s) : s[i] = r[i]
C26_WriteOrder ==
  /\ IsPrefixOf(aWritten, <<1, 2>>)
  /\ aWritten # <<>> => IsReady(errorLogs)
  /\ Len(aWritten) = 2 => \E i \in 1..Len(responses) : IncludesId1(responses[i])
  /\ aPc \in {"idle", "waitReady"} => aWritten = <<>>
C26_Witness ==
  /\ aWritten = <<1, 2>>
  /\ aPc = "waitCall"
  /\ responses = <<"init_ok">>

\* searchArxiv call c returns what parseSearchResponse makes of its responses array
SettlesByParse(c) ==
  cPc[c] \in {"sendCall", "waitCall"} /\ cPc'[c] = "done" /\ cThrown'[c] = ""
Id2Chunks(rs) == {i \in 1..Len(rs) : IncludesId2(rs[i])}

\* C21: when every chunk holding "id":2 is a well-formed result whose inner text is
\* not JSON, the result returned is a failure whose error reports that the response
\* could not be parsed.
BadInnerKinds == {"call_badinner", "call_badinner_error"}
ParseFailureMessages ==
  {"Failed to parse server response", "No valid response received from server"}
BadInnerAnswered(rs) ==
  Id2Chunks(rs) # {} /\ \A i \in Id2Chunks(rs) : rs[i] \in BadInnerKinds
BadInnerFails ==
  [][\A c \in Calls :
       (SettlesByParse(c) /\ BadInnerAnswered(Kinds(cResponses[c]))) =>
         (~cResult'[c].success /\ IsNonEmptyString(cResult'[c].error))]_vars
C21_BadInnerIsParseError ==
  [][\A c \in Calls :
       (SettlesByParse(c) /\ BadInnerAnswered(Kinds(cResponses[c]))) =>
         (~cResult'[c].success /\ cResult'[c].error \in ParseFailureMessages)]_vars

\* C27: searchArxiv returns from the protocol path only when a chunk that is a JSON
\* message holding "id":2 has arrived.
C27_NoiseNeverCompletes ==
  [][\A c \in Calls :
       SettlesByParse(c) =>
         \E i \in Id2Chunks(Kinds(cResponses[c])) : IsJson(cResponses[c][i].kind)]_vars

\* C28: the result is the one parseSearchResponse gives when every line the child
\* wrote arrives alone in one chunk.
RECURSIVE Lines(_)
Lines(rs) ==
  IF rs = <<>> THEN <<>>
  ELSE IF Len(rs) >= 2 /\ rs[1] = "call_ok_head" /\ rs[2] = "call_ok_tail"
  THEN <<"call_ok">> \o Lines(SubSeq(rs, 3, Len(rs)))
  ELSE IF rs[1] = "log_and_call_ok"
  THEN <<"log", "call_ok">> \o Lines(Tail(rs))
  ELSE <<rs[1]>> \o Lines(Tail(rs))
C28_SplitIndependent ==
  [][\A c \in Calls :
       SettlesByParse(c) =>
         cResult'[c] = parseSearchResponse(Lines(Kinds(cResponses[c])))]_vars

\* C29: a call gets past waitForServerReady only with the ready line on stderr,
\* whatever stdout carried; it gets past a response wait only with a stdout chunk
\* holding the id waited for, whatever stderr carried; and what it returns from the
\* protocol path is what parseSearchResponse makes of the stdout chunks alone.
PastReady == {"sendInit", "waitInit", "sendCall", "waitCall"}
ReadyOnlyFromStderr ==
  \A c \in Calls : cPc[c] \in PastReady => pReady[cProc[c]]
ResponsesOnlyFromStdout ==
  \A c \in Calls :
    LET rs == Kinds(cResponses[c]) IN
      /\ (cPc[c] \in {"sendInit", "waitInit"} /\ cPc'[c] = "sendCall") =>
           \E i \in 1..Len(rs) : IncludesId1(rs[i])
      /\ SettlesByParse(c) =>
           (Id2Chunks(rs) # {} /\ cResult'[c] = parseSearchResponse(rs))
      /\ pErrText' # pErrText => UNCHANGED <<cPc, cResponses, cResult>>
C29_StreamsKeptApart == []ReadyOnlyFromStderr /\ [][ResponsesOnlyFromStdout]_vars
C29_Witness ==
  \E c \in Calls :
    /\ cPc[c] = "done"
    /\ cThrown[c] = ResponseTimeoutMsg("waitCall")
    /\ cProc[c] # 0
    /\ pErrText[cProc[c]]

\* C22: the list part_009's fixNvidiaMessageFormat returns holds messages with a
\* role and a string content, no two adjacent ones with the same role unless that
\* role is system; and [user, user, assistant, user] gives 3 messages.
NoAdjacentSameRole(out) ==
  \A i \in 1..(Len(out) - 1) : out[i].role = out[i + 1].role => out[i].role = "system"
RolesOfInput == [i \in 1..Len(nvInput.messages) |-> nvInput.messages[i].role]
C22_NoAdjacentSameRole ==
  nvVariant = "part_009" =>
    /\ \A i \in 1..Len(nvOutput) : nvOutput[i].role \in {"user", "assistant", "system"}
    /\ NoAdjacentSameRole(nvOutput)
    /\ (nvInput.form = "array" /\ RolesOfInput = <<"user", "user", "assistant", "user">>
          /\ \A i \in 1..4 : nvInput.messages[i].content = "hi") => Len(nvOutput) = 3

\* C23: the list returned holds no message other than a system message with empty
\* or whitespace content, and a single user message with empty content gives the
\* empty list.
SingleEmptyUser ==
  /\ nvInput.form \in {"array", "single"}
  /\ Len(nvInput.messages) = 1
  /\ nvInput.messages[1].role = "user"
  /\ nvInput.messages[1].content = ""
C23_EmptyFiltered ==
  nvVariant # "none" =>
    /\ \A i \in 1..Len(nvOutput) :
         nvOutput[i].role # "system" => Trim(nvOutput[i].content) # ""
    /\ SingleEmptyUser => Len(nvOutput) = 0

\* What part_009's function does guarantee: no two adjacent output messages come
\* from input messages of the same role, no output message of a non-system role
\* has blank content, and the output is never empty.
C22_KnownRolesAlternate ==
  (nvVariant = "part_009" /\ \A i \in 1..Len(nvInput.messages) :
                               nvInput.messages[i].role # "tool")
    => NoAdjacentSameRole(nvOutput)
C23_NeverEmpty ==
  nvVariant = "part_009" =>
    /\ Len(nvOutput) >= 1
    /\ \A i \in 1..Len(nvOutput) :
         nvOutput[i].role # "system" => Trim(nvOutput[i].content) # ""

\* C24: a call with sort_by 'date' that returns papers returns them ordered by
\* submission date, newest first.
ReturnedPapers == IF "papers" \in DOMAIN tResult THEN tResult.papers ELSE <<>>
SortByDate == "sort_by" \in DOMAIN tArgs /\ tArgs.sort_by = "date"
C24_DateOrder == (tVariant # "none" /\ SortByDate) => DateDescending(ReturnedPapers)

\* What does hold: the papers returned are in descending order of relevance_score,
\* and those of equal score keep the order of the feed (newest first for 'date').
ScoreDescending(ps) ==
  \A i \in 1..Len(ps) : \A j \in i..Len(ps) : relevance_score(ps[i]) >= relevance_score(ps[j])
C24_ScoreOrder ==
  tVariant # "none" =>
    /\ ScoreDescending(ReturnedPapers)
    /\ SortByDate =>
         \A i \in 1..Len(ReturnedPapers) : \A j \in i..Len(ReturnedPapers) :
           relevance_score(ReturnedPapers[i]) = relevance_score(ReturnedPapers[j])
             => ReturnedPapers[i].published >= ReturnedPapers[j].published

\* C25: execute returns at most max_results papers for every numeric max_results
\* (none for a negative one), at most 10 when the argument is absent, and never more
\* than 50.
C25_AtMostMaxResults ==
  tVariant = "execute" =>
    /\ Len(ReturnedPapers) <= maxResultsCap
    /\ Len(ReturnedPapers) <=
         (IF "max_results" \notin DOMAIN tArgs THEN maxResultsDefault
          ELSE IF tArgs.max_results < 0 THEN 0 ELSE tArgs.max_results)

\* What does hold: the bound of the claim for every max_results other than 0, and
\* the cap of 50.
C25_AtMostWhenNonZero ==
  tVariant = "execute" =>
    /\ Len(ReturnedPapers) <= maxResultsCap
    /\ ("max_results" \in DOMAIN tArgs /\ tArgs.max_results # 0)
         => Len(ReturnedPapers) <= (IF tArgs.max_results < 0 THEN 0 ELSE tArgs.max_results)
    /\ "max_results" \notin DOMAIN tArgs => Len(ReturnedPapers) <= maxResultsDefault
C25_CapReached == tVariant = "execute" /\ Len(ReturnedPapers) = maxResultsCap

\* C30: listTools() stores a cache entry only when the load succeeded: the cache
\* never holds the empty list of a failed load, so no later call is served that list
\* from the cache.
C30_NoFailedLoadCached ==
  \A s \in Services : toolsCache[s].set => toolsCache[s].tools # EmptyList

\* C31: a refreshTools() call never returns the list of a load that was already in
\* flight when it was called.
C31_RefreshLoadsAnew == refreshGot # "joined"

\* What does hold: a refreshTools() call made while no load is in flight returns the
\* list of the load it started, and that list is the cache entry when it returns.
C31_RefreshAloneIsFresh ==
  [][(refreshPc = "own" /\ refreshPc' = "idle")
       => /\ lastHanded'.ok
          /\ toolsCache'[TheSvc].set
          /\ toolsCache'[TheSvc].tools = lastHanded'.tools]_vars

\* C34: a listTools() call made after close() completed (mcpClient is null again)
\* starts or joins a tool load, or returns an empty list: it never returns the tools
\* of the closed client.
AfterClose == scenario = "service" /\ closeCalled[TheSvc] /\ mcpClient[TheSvc] = "null"
C34_ClosedToolsNotServed ==
  [][(AfterClose /\ SvcListTools)
       => \/ ltWaiting' > ltWaiting
          \/ ~lastHanded'.tools.nonEmpty]_vars

\* What does hold: such a call returns tools only from a cache entry that is still
\* valid, which close() left in place.
C34_ServedFromValidCache ==
  [][(AfterClose /\ SvcListTools /\ ltWaiting' = ltWaiting)
       => /\ isCacheValid(toolsCache[TheSvc])
          /\ lastHanded'.tools = toolsCache[TheSvc].tools]_vars

\* C35: isInitialized is true only if mcpClient is non-null and not closed and the
\* most recent initializeTools run succeeded.
LastRunSucceeded(s) ==
  IF loadPc[s] = "resolved" THEN loadValue[s] # EmptyList ELSE lastLoadOk[s]
C35_InitializedMeansLive ==
  \A s \in Services :
    svcIsInitialized[s] => (mcpClient[s] \in {"new", "open"} /\ LastRunSucceeded(s))

\* What does hold: isInitialized is true only after some initializeTools run
\* succeeded, and it is false when close() has nulled mcpClient and no run has
\* succeeded since.
C35_InitializedOnceLoaded ==
  \A s \in Services : svcIsInitialized[s] => \/ lastLoadDone[s] >= 0
                                             \/ loadPc[s] = "resolved"

\* C33: whenever no _doInitialize run is in flight, the pool's tools and toolsMap
\* are the list loaded from its current mcpService (empty when mcpService is null),
\* and isInitialized is true only if mcpService is non-null.
NoRunInFlight == \A r \in Runs : runPc[r] \in {"none", "done"}
LoadedFrom(s) == IF s # 0 /\ toolsCache[s].set THEN toolsCache[s].tools ELSE EmptyList
C33_PoolMatchesService ==
  (scenario = "pool" /\ NoRunInFlight) =>
    /\ poolTools = LoadedFrom(poolService)
    /\ poolToolsMap = LoadedFrom(poolService)
    /\ poolIsInitialized => poolService # 0

\* What does hold: the same while cleanup() has never been called.
C33_MatchesWithoutCleanup == cleanups = 0 => C33_PoolMatchesService

\* C36: isHealthy() called twice in a row at the same clock time gives the same
\* result both times.
C36_IsHealthyPure ==
  scenario = "pool" =>
    isHealthyValue(isHealthyStamp(lastHealthCheck)) = isHealthyValue(lastHealthCheck)

\* What does hold: the second and every further call agree with each other, and the
\* first agrees with them unless the pool holds an empty tool list.
C36_PureButFirst ==
  scenario = "pool" =>
    LET l1 == isHealthyStamp(lastHealthCheck) IN
      /\ isHealthyValue(isHealthyStamp(l1)) = isHealthyValue(l1)
      /\ isHealthyStamp(l1) = l1
      /\ poolTools.nonEmpty => isHealthyValue(l1) = isHealthyValue(lastHealthCheck)

\* C32: when the research server never signals readiness, or never answers the
\* tools/call request, and the fallback fetch would be answered, the handler does
\* not return the error response of its 30 s timer.
C32_FallbackBeatsDeadline == hResponse # DeadlineResponse

\* What does hold: the handler answers from search results when the server file is
\* missing, when the server answers, or when it leaves the initialize request
\* unanswered (the 5 s wait, then the fallback); and once the server process is
\* started and stays silent at startup or on tools/call, the handler's timer is what
\* ends the wait.
C32_SilentServerTimesOut ==
  [][(scenario = "research" /\ hResponse = "none" /\ hResponse' = "answer")
       => \/ ~isServerAvailable
          \/ aPc = "waitCall" /\ HasResponse(responses, "waitCall")
          \/ aPc = "fallback" /\ aThrown = ResponseTimeoutMsg("waitInit")]_vars

\* C37: for a model response with k tool calls the non-streaming chat handler
\* obtains exactly k tool results, the i-th carrying the i-th call's id (a generated
\* id when the call has none); a tool that throws gives a 'Tool execution failed'
\* result for that call only, and the results of the other calls are collected.
FailureContents == {"Tool execution failed: " \o n : n \in ToolNames}
C37_OneResultPerCall ==
  (tcDone /\ Len(tcCalls) > 0) =>
    /\ Len(tcResults) = Len(tcCalls)
    /\ \A i \in 1..Len(tcCalls) :
         /\ tcCalls[i].id # "" => tcResults[i].tool_call_id = tcCalls[i].id
         /\ tcCalls[i].id = "" =>
              tcResults[i].tool_call_id \in generateToolCallId(tcCalls[i].name)
         /\ tcResults[i].content \in FailureContents <=> tcPromises[i].outcome = "threw"
         /\ tcPromises[i].outcome = "returned" =>
              tcResults[i].content = "result of " \o tcCalls[i].name

\* three calls, the second of which has no id and threw, the others returned
C37_Witness ==
  /\ tcDone
  /\ Len(tcCalls) = 3
  /\ tcCalls[2].id = ""
  /\ tcPromises[2].outcome = "threw"
  /\ tcPromises[1].outcome = "returned"
  /\ tcPromises[3].outcome = "returned"
  /\ tcResults[2].content = "Tool execution failed: arxiv_query"
  /\ tcResults[1].content = "result of arxiv_query"
  /\ tcResults[1].tool_call_id = "call_a"

\* C38: every McpService the research agent endpoint or the debug-mcp endpoint
\* created has had close() called on it exactly once when the handler returns, and
\* never more than once, whether listing, the tool call or the summary call
\* succeeded or threw.
C38_ClosedExactlyOnce ==
  \A r \in Requests :
    /\ gCreated[r] <= 1
    /\ gCloseCalls[r] <= gCreated[r]
    /\ gPc[r] = "returned" => gCloseCalls[r] = gCreated[r]

\* an agent request whose tool call threw has returned, its service closed once,
\* next to a debug request that returned
C38_Witness ==
  /\ scenario = "agent"
  /\ gKind = [r \in Requests |-> IF r = 1 THEN "agent" ELSE "debug"]
  /\ \A r \in Requests : gPc[r] = "returned" /\ gCreated[r] = 1 /\ gCloseCalls[r] = 1
  /\ gThrown[1]
  /\ ~gThrown[2]

\* C39: selectToolsForQuery returns, for every query and every config, a non-empty
\* list without duplicates that holds only tool names enabled in config.tools.
NoDuplicates(s) == \A i, j \in 1..Len(s) : s[i] = s[j] => i = j
C39_SelectsEnabledTools ==
  sCalled =>
    /\ Len(sTools) >= 1
    /\ NoDuplicates(sTools)
    /\ \A i \in 1..Len(sTools) : sTools[i] \in sConfigTools

\* What does hold: the list is non-empty and without duplicates, hybrid_search is
\* in it exactly when config.tools enables it, and with arxiv_query, brave_search
\* and hybrid_search all enabled every name returned is enabled.
C39_NonEmptyNoDuplicates ==
  sCalled =>
    /\ Len(sTools) >= 1
    /\ NoDuplicates(sTools)
    /\ ("hybrid_search" \in sConfigTools) <=> (\E i \in 1..Len(sTools) : sTools[i] = "hybrid_search")
    /\ {"arxiv_query", "brave_search", "hybrid_search"} \subseteq sConfigTools
         => \A i \in 1..Len(sTools) : sTools[i] \in sConfigTools

====
